---- MODULE Spec2Model ----
(***************************************************************************)
(* State-machine model of the e-paper weather display firmware: one wake   *)
(* cycle is one run of setup() (boot, battery check, WiFi, location        *)
(* validation, wake-window check, forecast fetch with retry, rendering,    *)
(* BeginSleep), cycles are separated by deep sleep, and the provisioning   *)
(* web server (runSetupMode) is the branch taken when buttons 2 and 4 are  *)
(* held at boot.                                                           *)
(***************************************************************************)
EXTENDS Integers, Sequences, FiniteSets, TLC

VARIABLES
  pc,                     \* position of the program in setup()/runSetupMode()/loop()
  settings,               \* global Settings structure (RAM)
  prefs,                  \* settings persisted in Preferences ("EEPROM")
  clock,                  \* system wall clock as time()/localtime() return it
  wakeClock,              \* the wall clock when this run of setup() started
  CurrentHour,            \* globals written by UpdateLocalTime
  CurrentMin,
  CurrentSec,
  lowBatteryScreenShown,  \* RTC_DATA_ATTR flag, survives deep sleep
  batVoltage,             \* readBatteryVoltage() of this cycle, millivolts
  wifiConnected,          \* StartWiFi() == WL_CONNECTED in this cycle
  locationResult,         \* validateAndGeocodeLocation() of this cycle (-1: not called)
  rtcSet,                 \* local rtcSet of setup()
  WakeUp,                 \* local WakeUp of setup()
  Attempts,               \* local Attempts of setup()
  weatherResult,          \* local weatherResult of setup()
  results,                \* return codes of the obtainWeatherData calls of this cycle
  framebuffer,            \* screen drawn into the framebuffer
  epd,                    \* display driver calls made in this cycle
  panel,                  \* image the e-paper panel shows (kept without power)
  SleepTimer,             \* seconds armed by BeginSleep (0: not armed)
  served,                 \* last response of the provisioning web server
  saved,                  \* startHour and stopHour of the last accepted /save request
  WxHourlyForecast,       \* hourly records, a function of the indices written
  WxDailyForecast,        \* daily records, a function of the indices written
  WxConditions,           \* WxConditions[0]
  response,               \* the last forecast response received in this cycle
  TZ,                     \* hours of the TZ setting "GMT+n" (0: not set)
  drawn,                  \* what DisplayWeather() drew: forecast days and graph columns
  geocode                 \* the answer to the geocoding request of this cycle

vars == <<pc, settings, prefs, clock, wakeClock, CurrentHour, CurrentMin, CurrentSec,
          lowBatteryScreenShown, batVoltage, wifiConnected, locationResult,
          rtcSet, WakeUp, Attempts, weatherResult, results, framebuffer, epd,
          panel, SleepTimer, served, saved, WxHourlyForecast, WxDailyForecast,
          WxConditions, response, TZ, drawn, geocode>>

\* The forecast records in RAM, the response they were decoded from, the TZ
\* setting made from it, and the answer to the geocoding request.
wx == <<WxHourlyForecast, WxDailyForecast, WxConditions, response, TZ, geocode>>

(***************************************************************************)
(* Program constants                                                       *)
(***************************************************************************)
Delta == 30                 \* RTC speed compensation offset (seconds)
MaxAttempts == 2            \* loop bound "Attempts <= 2"
Y2K == 946684800            \* 2000-01-01, the clock is set from there on
SleepHourNever == 24        \* SleepHour value meaning "never sleep"
MaxInterval == 1440         \* frequency must be < 1440
DefaultInterval == 60       \* replacement for an out-of-range frequency
MaxCredLen == 63            \* longest API key, SSID, password accepted
MaxCityLen == 127           \* longest location string accepted
max_hourly_readings == 48   \* capacity of WxHourlyForecast
max_daily_readings == 8     \* capacity of WxDailyForecast
MaxForecastDays == 5        \* capacity of dailyForecasts in drawForecast
PopThunderLimit == 16777216 \* 0.5 in units of 2^-25
PopRainLimit == 10066329    \* largest float, in units of 2^-25, that is <= 0.3 (double)
graphX == 240               \* left edge of the graph
graphWidth == 665           \* width of the graph
InvalidCoord == -1810000    \* "-181", in 1/10000 degree
LowBatteryGridLimit == 13421772  \* largest float, in units of 2^-22, that is <= 3.2 (double)

Min(a, b) == IF a < b THEN a ELSE b

(***************************************************************************)
(* Settings                                                                *)
(* Strings are modelled by their length, coordinates in 1/10000 degree.    *)
(***************************************************************************)
defaultSettings ==
  [ssid |-> 4, password |-> 8, apikey |-> 6, City |-> 13,
   Latitude |-> 418832, Longitude |-> 876324, Units |-> "M",
   SleepDuration |-> 60, WakeupHour |-> 0, SleepHour |-> 24]

NoPrefs == [magic |-> FALSE]

\* saveSettings(): every field of the RAM structure is written, with the magic.
saveSettings(s) == [magic |-> TRUE, data |-> s]

\* initSettings(): load the stored settings, or the defaults when the magic is missing.
initSettings(p) == IF p.magic THEN p.data ELSE defaultSettings

\* Preferences after initSettings(): resetSettingsToDefaults() also saves.
initSettingsPrefs(p) == IF p.magic THEN p ELSE saveSettings(defaultSettings)

(***************************************************************************)
(* Battery threshold.  setup() computes float voltage = batVoltage/1000.0  *)
(* and compares it with the double constant 3.2.  The float nearest to     *)
(* x in [2,4) is a multiple of 2^-22; Float32Grid gives it in that unit    *)
(* (round to nearest, ties to even).  Rounding is monotone and 2.0 and 4.0 *)
(* are floats, so readings outside [2,4) volts compare with 3.2 as their   *)
(* grid value does.  The double 3.2 lies strictly between the grid points  *)
(* 13421772 and 13421773.                                                  *)
(***************************************************************************)
Float32Grid(mv) ==
  LET a    == mv * 2048
      q    == a \div 1000
      b    == (a % 1000) * 2048
      f    == b \div 1000
      rem  == b % 1000
      down == q * 2048 + f
  IN  IF rem * 2 > 1000 \/ (rem * 2 = 1000 /\ down % 2 = 1) THEN down + 1 ELSE down

\* voltage > 0 && voltage <= 3.2
LowBattery(mv) == mv > 0 /\ Float32Grid(mv) <= LowBatteryGridLimit

\* voltage > 3.2
BatteryGood(mv) == Float32Grid(mv) > LowBatteryGridLimit

(***************************************************************************)
(* Wall clock.  clock.now is time(NULL), clock.set is "now >= 946684800";  *)
(* h, m, s are the fields localtime() returns.  A wake cycle lasts a few   *)
(* seconds: the clock changes when the device sleeps and when              *)
(* SetRTCTimeFromAPI sets it.                                              *)
(***************************************************************************)
ClockUnset == [set |-> FALSE, now |-> 0, h |-> 0, m |-> 0, s |-> 0]

\* 2026-01-01 00:00:00 UTC, the day of the sample clocks.
SampleMidnight == 20454 * 86400

ClockAt(hh, mm, ss) ==
  [set |-> TRUE, now |-> SampleMidnight + hh * 3600 + mm * 60 + ss,
   h |-> hh, m |-> mm, s |-> ss]

\* The calendar of gmtime()/localtime(), for the years 1901 to 2099: year and day
\* of the year of a day number counted from 1970-01-01.  Four years from 1970 on
\* have 365, 365, 366 and 365 days.
YearDay(d) ==
  CHOOSE yd \in
     {IF r < 365 THEN [tm_year |-> 1970 + 4 * q, tm_yday |-> r]
      ELSE IF r < 730 THEN [tm_year |-> 1971 + 4 * q, tm_yday |-> r - 365]
      ELSE IF r < 1096 THEN [tm_year |-> 1972 + 4 * q, tm_yday |-> r - 730]
      ELSE [tm_year |-> 1973 + 4 * q, tm_yday |-> r - 1096] :
        q \in {d \div 1461}, r \in {d % 1461}} : TRUE

\* (The intermediate values are bound as elements of one-element sets, here and
\* in the loops of the renderer, so that each is computed once.)
gmtime(t) ==
  CHOOSE tm \in
     {[tm_year |-> yd.tm_year, tm_yday |-> yd.tm_yday, tm_hour |-> (u % 86400) \div 3600,
       tm_min |-> (u % 3600) \div 60, tm_sec |-> u % 60] :
        u \in {t}, yd \in {YearDay(t \div 86400)}} : TRUE

\* localtime() under TZ "GMT+tz" / "GMT-tz": a POSIX TZ string names the hours to
\* add to local time to get UTC, so local time is UTC minus tz hours.
localtime(t, tz) == gmtime(t - tz * 3600)

\* UpdateLocalTime(): the three globals after the call.
UpdateLocalTime(c, cur) ==
  IF ~c.set THEN cur ELSE [h |-> c.h, m |-> c.m, s |-> c.s]

Current == [h |-> CurrentHour, m |-> CurrentMin, s |-> CurrentSec]

(***************************************************************************)
(* Wake-window decision of setup()                                         *)
(***************************************************************************)
\* Mutant: the window that spans midnight is treated like any other.
WakeWindowNoWrap(wakeHour, sleepHour, h) ==
  IF sleepHour = SleepHourNever THEN TRUE
  ELSE (h >= wakeHour /\ h <= sleepHour)

WakeWindow(wakeHour, sleepHour, h) ==
  IF sleepHour = SleepHourNever THEN TRUE
  ELSE IF wakeHour > sleepHour THEN (h >= wakeHour \/ h <= sleepHour)
  ELSE (h >= wakeHour /\ h <= sleepHour)

\* Mutant: the window is checked against the stale hour when the clock is unset.
WakeDecisionStaleHour(c, s, cur) ==
  WakeWindow(s.WakeupHour, s.SleepHour, UpdateLocalTime(c, cur).h)

\* Mutant: the window is not checked.
WakeDecisionAlways(c, s, cur) == TRUE

\* WakeUp as setup() computes it from the clock and the settings.
WakeDecision(c, s, cur) ==
  IF c.set THEN WakeWindow(s.WakeupHour, s.SleepHour, UpdateLocalTime(c, cur).h)
  ELSE TRUE

(***************************************************************************)
(* Sleep duration of BeginSleep()                                          *)
(***************************************************************************)
\* Mutant: the minute is not reduced modulo the interval.
SleepSecondsNoModulo(R, m, s) == ((R - m) * 60) - s + Delta

\* Variant of SleepSeconds without the compensation offset.
SleepSecondsNoDelta(R, m, s) == ((R - (m % R)) * 60) - s

SleepSeconds(R, m, s) ==
  LET minutesUntilNext == R - (m % R)
      secondsUntilNext == (minutesUntilNext * 60) - s
  IN  secondsUntilNext + Delta

(***************************************************************************)
(* validateAndGeocodeLocation()                                            *)
(* geo is the outcome of the geocoding request: kind is "http401",         *)
(* "httperr", "badjson", "empty" (no array or no element), "nolatlon" or   *)
(* "coords" (first element with lat, lon); reconnects tells whether the    *)
(* function's own WiFi connection attempt succeeds when it has to make one.*)
(***************************************************************************)
\* Variant of CoordsValid that takes -181 for a coordinate.
CoordsValidFromMarker(s) ==
  /\ s.Latitude >= -1810000 /\ s.Latitude < 1800000
  /\ s.Longitude >= -1810000 /\ s.Longitude < 1800000

CoordsValid(s) ==
  /\ s.Latitude > -1800000 /\ s.Latitude < 1800000
  /\ s.Longitude > -1800000 /\ s.Longitude < 1800000

GeocodedInRange(geo) ==
  ~(geo.lat < -900000 \/ geo.lat > 900000 \/ geo.lon < -1800000 \/ geo.lon > 1800000)

\* No geocoding request was made.
NoGeocode == [reconnects |-> FALSE, kind |-> "none", lat |-> 0, lon |-> 0]

\* The function gets as far as http.GET().
GeocodeRequested(s, connected, geo) ==
  /\ ~CoordsValid(s)
  /\ s.City /= 0
  /\ s.apikey /= 0
  /\ connected \/ (s.ssid /= 0 /\ geo.reconnects)

\* [ret, settings, save]: the return code, the RAM settings afterwards and
\* whether saveSettings() was called.
validateAndGeocodeLocation(s, connected, geo) ==
  LET keep(r) == [ret |-> r, settings |-> s, save |-> FALSE]
  IN  IF CoordsValid(s) THEN keep(0)
      ELSE IF s.City = 0 THEN keep(2)
      ELSE IF s.apikey = 0 THEN keep(2)
      ELSE IF ~connected /\ s.ssid = 0 THEN keep(0)      \* "return false"
      ELSE IF ~connected /\ ~geo.reconnects THEN keep(2)
      ELSE IF geo.kind = "http401" THEN keep(1)
      ELSE IF geo.kind = "httperr" THEN keep(2)
      ELSE IF geo.kind = "badjson" THEN keep(2)
      ELSE IF geo.kind = "empty" THEN keep(2)
      ELSE IF geo.kind = "nolatlon" THEN keep(2)
      ELSE IF ~GeocodedInRange(geo) THEN keep(2)
      ELSE [ret |-> 0,
            settings |-> [s EXCEPT !.Latitude = geo.lat, !.Longitude = geo.lon],
            save |-> TRUE]

(***************************************************************************)
(* obtainWeatherData() and DecodeWeather()                                 *)
(* resp is the outcome of the forecast request: the HTTP code, whether the *)
(* body parses, whether it has a "current" object, and the wall clock that *)
(* results from SetRTCTimeFromAPI(current.dt, timezone_offset).            *)
(***************************************************************************)
\* A forecast response: hourly and daily are the arrays of the document, in
\* source order.  Temperatures are in tenths of a degree, pressures in hundredths
\* of a hPa (the decimal text of the document), Absent marks a missing member.
\* dt is current.dt (here the time of the clock ck), timezone_offset is in seconds.
Forecast(c, j, cur, ck, hourly, daily) ==
  [code |-> c, json |-> j, current |-> cur, dt |-> ck.now, timezone_offset |-> 0,
   hourly |-> hourly, daily |-> daily]

\* The response resp sent from a place whose timezone_offset is tzo.
ForecastIn(tzo, resp) == [resp EXCEPT !.timezone_offset = tzo]

Absent == -1

NoResponse == Forecast(0, "bad", FALSE, ClockUnset, <<>>, <<>>)

NoRecords == <<>>

NoConditions == [Trend |-> ""]

\* The records of this cycle.
Wx ==
  [hourly |-> WxHourlyForecast, daily |-> WxDailyForecast, cond |-> WxConditions,
   tz |-> TZ]

\* as<float>() of a pressure: the nearest float, in units of 2^-14 hPa (a float
\* below 1024 is a multiple of 2^-14, one from 1024 up a multiple of 2^-13).
PressureFloat(c) ==
  IF c < 102400 THEN (c * 8192 + 25) \div 50 ELSE 2 * ((c * 4096 + 25) \div 50)

\* (int) conversion of a / b: truncation toward zero.
TruncDiv(a, b) == IF a >= 0 THEN a \div b ELSE -((-a) \div b)

\* SetRTCTimeFromAPI(): the wall clock and the TZ setting afterwards.
SetRTCTimeFromAPI(apiTime, timezoneOffset) ==
  LET offsetHours == TruncDiv(timezoneOffset, 3600)
      t == localtime(apiTime, offsetHours)
  IN  [clock |-> [set |-> apiTime >= Y2K, now |-> apiTime, h |-> t.tm_hour,
                  m |-> t.tm_min, s |-> t.tm_sec],
       tz |-> offsetHours]

\* as<float>() of a probability given in hundredths: the nearest float, in units
\* of 2^-25 (exact from 0.25 up, where the thresholds of the renderer are).
PopFloat(c) == (c * 16777216 + 25) \div 50

\* Rainfall and snowfall are kept in hundredths of a millimetre and their sums are
\* taken as exact; temperatures are only compared with each other.
HourlyRecord(e) ==
  [Dt |-> e.dt, Temperature |-> e.temp, Low |-> e.temp, High |-> e.temp,
   Pressure |-> PressureFloat(e.pressure), Pop |-> PopFloat(e.pop),
   Cloudcover |-> e.clouds,
   Rainfall |-> IF e.rain = Absent THEN 0 ELSE e.rain,
   Snowfall |-> IF e.snow = Absent THEN 0 ELSE e.snow]

DailyRecord(e) ==
  [Dt |-> e.dt, Temperature |-> e.day, Low |-> e.min, High |-> e.max,
   Pressure |-> PressureFloat(e.pressure), Pop |-> PopFloat(e.pop),
   Cloudcover |-> e.clouds,
   Rainfall |-> IF e.rain = Absent THEN 0 ELSE e.rain,
   Snowfall |-> IF e.snow = Absent THEN 0 ELSE e.snow]

\* Variant of the loop conditions without the capacity test.
LoopGuardNoCapacity(r, size) == r < size

\* r < max_hourly_readings && r < hourly.size()
HourlyLoopGuard(r, size) == r < max_hourly_readings /\ r < size

\* r < max_daily_readings && r < daily.size()
DailyLoopGuard(r, size) == r < max_daily_readings /\ r < size

RECURSIVE DecodeHourly(_, _, _)
DecodeHourly(arr, hourly, r) ==
  IF HourlyLoopGuard(r, Len(hourly))
  THEN DecodeHourly((r :> HourlyRecord(hourly[r + 1])) @@ arr, hourly, r + 1)
  ELSE arr

RECURSIVE DecodeDaily(_, _, _)
DecodeDaily(arr, daily, r) ==
  IF DailyLoopGuard(r, Len(daily))
  THEN DecodeDaily((r :> DailyRecord(daily[r + 1])) @@ arr, daily, r + 1)
  ELSE arr

\* pressure_trend after "((int)(pressure_trend * 10)) / 10.0", in tenths of a hPa.
PressureTrend(arr) == TruncDiv(10 * (arr[0].Pressure - arr[1].Pressure), 16384)

\* The pressure trend of DecodeWeather: size is daily.size().
DecodeTrend(cond, size, arr) ==
  IF size >= 2
  THEN [cond EXCEPT !.Trend = IF PressureTrend(arr) < 0 THEN "-"
                              ELSE IF PressureTrend(arr) > 0 THEN "+" ELSE "="]
  ELSE cond

\* DecodeWeather's return value, the wall clock, the TZ setting and the records
\* afterwards.
DecodeWeather(resp, c, w) ==
  IF resp.json = "bad"
  THEN [ok |-> FALSE, clock |-> c, tz |-> w.tz, hourly |-> w.hourly,
        daily |-> w.daily, cond |-> w.cond]
  ELSE LET daily == DecodeDaily(w.daily, resp.daily, 0)
           rtc   == SetRTCTimeFromAPI(resp.dt, resp.timezone_offset)
       IN  [ok |-> TRUE,
            clock |-> IF resp.current THEN rtc.clock ELSE c,
            tz |-> IF resp.current THEN rtc.tz ELSE w.tz,
            hourly |-> DecodeHourly(w.hourly, resp.hourly, 0),
            daily |-> daily,
            cond |-> DecodeTrend(w.cond, Len(resp.daily), daily)]

\* 0 = success, 1 = API key invalid (401), 2 = other error.
obtainWeatherData(resp, c, w) ==
  IF resp.code = 200
  THEN CHOOSE o \in {[ret |-> IF d.ok THEN 0 ELSE 2, clock |-> d.clock, tz |-> d.tz,
                        hourly |-> d.hourly, daily |-> d.daily, cond |-> d.cond] :
                          d \in {DecodeWeather(resp, c, w)}} : TRUE
  ELSE [ret |-> IF resp.code = 401 THEN 1 ELSE 2, clock |-> c, tz |-> w.tz,
        hourly |-> w.hourly, daily |-> w.daily, cond |-> w.cond]

\* Mutant: the loop does not stop on success.
FetchLoopGuardIgnoresSuccess(wr, att) == att <= MaxAttempts

\* Mutant: a single attempt.
FetchLoopGuardSingle(wr, att) == wr /= 0 /\ att <= 1

\* Loop condition of the fetch loop of setup().
FetchLoopGuard(wr, att) == wr /= 0 /\ att <= MaxAttempts

(***************************************************************************)
(* The /save handler of runSetupMode()                                     *)
(* A request gives the length of each string parameter, the units value    *)
(* ("" when absent) and, for frequency, startHour and stopHour, either     *)
(* kind "empty", kind "none", or kind "num" with val = String::toInt().    *)
(***************************************************************************)
Param(k, v) == [kind |-> k, val |-> v]

\* No /save request has been accepted yet.
NoSave == [startHour |-> Param("empty", 0), stopHour |-> Param("empty", 0)]

\* Variant of SaveFrequency without the range check.
SaveFrequencyUnchecked(s, req) ==
  IF req.frequency.kind = "num" THEN req.frequency.val ELSE s.SleepDuration

SaveFrequency(s, req) ==
  LET cur == s.SleepDuration
      v   == IF req.frequency.kind = "empty" THEN cur
             ELSE IF req.frequency.kind = "num" THEN req.frequency.val
             ELSE 0                               \* toInt() of a non-number
  IN  IF v <= 0 \/ v >= MaxInterval THEN DefaultInterval ELSE v

SaveStartError(req) ==
  /\ req.startHour.kind = "num"
  /\ (req.startHour.val < 0 \/ req.startHour.val > 23)

SaveStopError(req) ==
  /\ req.stopHour.kind = "num"
  /\ (req.stopHour.val < 1 \/ req.stopHour.val > 23)

\* Variant of SaveValidationError without the length test of the password.
SaveValidationErrorNoPassword(req) ==
  \/ req.apikey > MaxCredLen
  \/ req.ssid > MaxCredLen
  \/ req.location > MaxCityLen
  \/ (req.units /= "" /\ req.units /= "I" /\ req.units /= "M")
  \/ SaveStartError(req)
  \/ SaveStopError(req)

SaveValidationError(req) ==
  \/ req.apikey > MaxCredLen
  \/ req.ssid > MaxCredLen
  \/ req.password > MaxCredLen
  \/ req.location > MaxCityLen
  \/ (req.units /= "" /\ req.units /= "I" /\ req.units /= "M")
  \/ SaveStartError(req)
  \/ SaveStopError(req)

SaveWakeupHour(s, req) ==
  IF req.startHour.kind = "empty" THEN s.WakeupHour
  ELSE IF req.startHour.kind = "none" THEN 0
  ELSE IF SaveStartError(req) THEN s.WakeupHour
  ELSE req.startHour.val

\* Variant of SaveSleepHour without the comparison with the start hour.
SaveSleepHourUnchecked(s, req) ==
  IF req.stopHour.kind = "empty" THEN s.SleepHour
  ELSE IF req.stopHour.kind = "none" THEN SleepHourNever
  ELSE IF SaveStopError(req) THEN s.SleepHour
  ELSE req.stopHour.val

SaveSleepHour(s, req) ==
  LET wakeupHour == SaveWakeupHour(s, req)
      sleepHour  == IF req.stopHour.kind = "empty" THEN s.SleepHour
                    ELSE IF req.stopHour.kind = "none" THEN SleepHourNever
                    ELSE IF SaveStopError(req) THEN s.SleepHour
                    ELSE req.stopHour.val
  IN  IF ~SaveValidationError(req) /\ sleepHour /= SleepHourNever /\ wakeupHour >= sleepHour
      THEN wakeupHour ELSE sleepHour

\* The settings an accepted save stores.
SavedSettings(s, req) ==
  [ssid |-> Min(req.ssid, MaxCredLen), password |-> Min(req.password, MaxCredLen),
   apikey |-> Min(req.apikey, MaxCredLen), City |-> Min(req.location, MaxCityLen),
   Latitude |-> InvalidCoord, Longitude |-> InvalidCoord,
   Units |-> IF req.units = "I" \/ req.units = "M" THEN req.units ELSE s.Units,
   SleepDuration |-> SaveFrequency(s, req),
   WakeupHour |-> SaveWakeupHour(s, req),
   SleepHour |-> SaveSleepHour(s, req)]

(***************************************************************************)
(* DisplayWeather(): the 5-day forecast and the 24-hour graph              *)
(***************************************************************************)
\* An element of a global array that was never written.
ZeroRecord ==
  [Dt |-> 0, Temperature |-> 0, Low |-> 0, High |-> 0, Pressure |-> 0, Pop |-> 0,
   Cloudcover |-> 0, Rainfall |-> 0, Snowfall |-> 0]

\* forecast[i]
At(forecast, i) == IF i \in DOMAIN forecast THEN forecast[i] ELSE ZeroRecord

Icon(code, isDay) == [code |-> code, dayNight |-> IF isDay THEN "d" ELSE "n"]

\* Variant of getIconFromCloudCover that looks at rain before snow.
getIconRainFirst(avgCloudCover, maxPop, totalRainfall, totalSnowfall, isDay) ==
  IF maxPop > PopThunderLimit \/ totalRainfall > 200 THEN Icon("11", isDay)
  ELSE IF maxPop > PopRainLimit \/ totalRainfall > 50 THEN Icon("10", isDay)
  ELSE IF totalSnowfall > 50 THEN Icon("13", isDay)
  ELSE IF avgCloudCover <= 10 THEN Icon("01", isDay)
  ELSE IF avgCloudCover <= 25 THEN Icon("02", isDay)
  ELSE IF avgCloudCover <= 50 THEN Icon("03", isDay)
  ELSE Icon("04", isDay)

\* getIconFromCloudCover(): maxPop is a float in units of 2^-25, the totals are in
\* hundredths of a millimetre.
getIconFromCloudCover(avgCloudCover, maxPop, totalRainfall, totalSnowfall, isDay) ==
  IF totalSnowfall > 50 THEN Icon("13", isDay)
  ELSE IF maxPop > PopThunderLimit \/ totalRainfall > 200 THEN Icon("11", isDay)
  ELSE IF maxPop > PopRainLimit \/ totalRainfall > 50 THEN Icon("10", isDay)
  ELSE IF avgCloudCover <= 10 THEN Icon("01", isDay)
  ELSE IF avgCloudCover <= 25 THEN Icon("02", isDay)
  ELSE IF avgCloudCover <= 50 THEN Icon("03", isDay)
  ELSE IF avgCloudCover <= 75 THEN Icon("04", isDay)
  ELSE Icon("04", isDay)

\* Variant of HigherTemp that keeps the value of the day's first period.
KeepFirstTemp(temp, dayTemp) == dayTemp

\* if (forecast[i].High > dailyForecasts[dayIdx].highTemp) ...
HigherTemp(temp, dayTemp) == IF temp > dayTemp THEN temp ELSE dayTemp

\* if (forecast[i].Low < dailyForecasts[dayIdx].lowTemp) ...
LowerTemp(temp, dayTemp) == IF temp < dayTemp THEN temp ELSE dayTemp

\* "Initialize new day with first period's data"
NewDay(p, i) ==
  [highTemp |-> p.High, lowTemp |-> p.Low, totalCloudCover |-> p.Cloudcover,
   cloudCoverCount |-> 1, maxPop |-> p.Pop, totalRainfall |-> p.Rainfall,
   totalSnowfall |-> p.Snowfall, firstPeriodIndex |-> i, dayTime |-> p.Dt]

\* "Same day - aggregate statistics"
SameDay(d, p) ==
  [d EXCEPT !.highTemp = HigherTemp(p.High, @),
            !.lowTemp = LowerTemp(p.Low, @),
            !.totalCloudCover = @ + p.Cloudcover,
            !.cloudCoverCount = @ + 1,
            !.maxPop = IF p.Pop > @ THEN p.Pop ELSE @,
            !.totalRainfall = @ + p.Rainfall,
            !.totalSnowfall = @ + p.Snowfall]

\* "Finalize ... cloud cover average" of the last day of the sequence days.
Finalize(days) ==
  IF Len(days) > 0 /\ days[Len(days)].cloudCoverCount > 0
  THEN [days EXCEPT ![Len(days)].totalCloudCover =
                       TruncDiv(@, days[Len(days)].cloudCoverCount)]
  ELSE days

\* Variant of GroupPeriod that also finalizes the average when the loop is left
\* by break.
GroupPeriodFinalizeAtBreak(forecast, tz, i, g) ==
  CHOOSE next \in
     {IF forecastDayOfYear /= g.lastDayOfYear
      THEN IF Len(g.days) < MaxForecastDays
           THEN [days |-> Append(Finalize(g.days), NewDay(p, i)),
                 lastDayOfYear |-> forecastDayOfYear, stop |-> FALSE]
           ELSE [days |-> Finalize(g.days), lastDayOfYear |-> g.lastDayOfYear,
                 stop |-> TRUE]
      ELSE IF Len(g.days) > 0
           THEN [g EXCEPT !.days[Len(g.days)] = SameDay(@, p)]
           ELSE g :
        p \in {At(forecast, i)},
        forecastDayOfYear \in {localtime(At(forecast, i).Dt, tz).tm_yday}} : TRUE

\* One pass of the grouping loop of drawForecast() for period i; g holds
\* dailyForecasts (dayCount is its length) and lastDayOfYear, stop tells that the
\* loop was left by break.
GroupPeriod(forecast, tz, i, g) ==
  CHOOSE next \in
     {IF forecastDayOfYear /= g.lastDayOfYear
      THEN IF Len(g.days) < MaxForecastDays
           THEN [days |-> Append(Finalize(g.days), NewDay(p, i)),
                 lastDayOfYear |-> forecastDayOfYear, stop |-> FALSE]
           ELSE [g EXCEPT !.stop = TRUE]                        \* break
      ELSE IF Len(g.days) > 0
           THEN [g EXCEPT !.days[Len(g.days)] = SameDay(@, p)]
           ELSE g :
        p \in {At(forecast, i)},
        forecastDayOfYear \in {localtime(At(forecast, i).Dt, tz).tm_yday}} : TRUE

\* The grouping loop of drawForecast() from period i on.  The arguments are
\* bound as elements of sets, so that each is a value: evaluated once.
RECURSIVE GroupByDay(_, _, _, _, _)
GroupByDay(forecast, num_forecasts, tz, i, state) ==
  CHOOSE result \in
     {IF j >= n \/ g.stop THEN g
      ELSE GroupByDay(f, n, z, j + 1, GroupPeriod(f, z, j, g)) :
        f \in {forecast}, n \in {num_forecasts}, z \in {tz}, j \in {i},
        g \in {state}} : TRUE

\* drawForecast(): the days displayed, each with its statistics and its icon.
drawForecast(forecast, num_forecasts, tz) ==
  LET g == GroupByDay(forecast, num_forecasts, tz, 0,
                      [days |-> <<>>, lastDayOfYear |-> -1, stop |-> FALSE])
  IN  CHOOSE shown \in
         {[day \in 1..Len(dailyForecasts) |->
             CHOOSE box \in
                {LET d     == dailyForecasts[day]
                     isDay == hour >= 6 /\ hour < 18
                 IN  [stats |-> d, isDay |-> isDay,
                      icon |-> getIconFromCloudCover(d.totalCloudCover, d.maxPop,
                                                     d.totalRainfall, d.totalSnowfall,
                                                     isDay)] :
                   hour \in {localtime(dailyForecasts[day].dayTime, tz).tm_hour}} : TRUE] :
            dailyForecasts \in {Finalize(g.days)}} : TRUE

\* Variant of SelectNext24Hours without the hour allowed in the past.
RECURSIVE SelectFromNow(_, _, _, _, _)
SelectFromNow(forecast, num_forecasts, now, i, indices) ==
  CHOOSE result \in
     {IF j < n /\ Len(valid) < 24
      THEN SelectFromNow(f, n, t, j + 1,
              IF forecastTime >= t /\ forecastTime <= t + 24 * 3600
              THEN Append(valid, j) ELSE valid)
      ELSE valid :
        f \in {forecast}, n \in {num_forecasts}, t \in {now}, j \in {i},
        valid \in {indices}, forecastTime \in {At(forecast, i).Dt}} : TRUE

\* The selection loop of drawOutlookGraph() from entry i on: validForecastIndices.
\* The arguments are bound as values, as in GroupByDay.
RECURSIVE SelectNext24Hours(_, _, _, _, _)
SelectNext24Hours(forecast, num_forecasts, now, i, indices) ==
  CHOOSE result \in
     {IF j < n /\ Len(valid) < 24
      THEN SelectNext24Hours(f, n, t, j + 1,
              IF forecastTime >= t - 3600 /\ forecastTime <= t + 24 * 3600
              THEN Append(valid, j) ELSE valid)
      ELSE valid :
        f \in {forecast}, n \in {num_forecasts}, t \in {now}, j \in {i},
        valid \in {indices}, forecastTime \in {At(forecast, i).Dt}} : TRUE

\* Variant of BarColumn in which every bar has the width graphWidth / forecastCount.
BarColumnEqualWidth(i, forecastCount) ==
  [x |-> graphX + ((i * graphWidth) \div forecastCount),
   width |-> graphWidth \div forecastCount]

\* barX and currentBarWidth of bar i (from 0) of forecastCount bars.
BarColumn(i, forecastCount) ==
  LET barX     == graphX + ((i * graphWidth) \div forecastCount)
      nextBarX == IF i < forecastCount - 1
                  THEN graphX + (((i + 1) * graphWidth) \div forecastCount)
                  ELSE graphX + graphWidth
  IN  [x |-> barX, width |-> nextBarX - barX]

\* drawOutlookGraph(): the entries selected and the columns of their bars.
drawOutlookGraph(forecast, num_forecasts, now) ==
  CHOOSE bars \in
     {LET valid == IF Len(selected) = 0 /\ num_forecasts > 0 THEN <<0>> ELSE selected
      IN  [i \in 1..Len(valid) |->
             [index |-> valid[i], x |-> BarColumn(i - 1, Len(valid)).x,
              width |-> BarColumn(i - 1, Len(valid)).width]] :
        selected \in {SelectNext24Hours(forecast, num_forecasts, now, 0, <<>>)}} : TRUE

NoScale == [tempMin |-> 0, tempMax |-> 0]

\* Variant of OutlookScale that pads by a tenth of the raw range in every case.
OutlookScaleRawRange(forecast, bars) ==
  IF Len(bars) = 0 THEN NoScale
  ELSE LET temps  == {At(forecast, bars[k].index).Temperature : k \in 1..Len(bars)}
           rawMin == CHOOSE t \in temps : \A u \in temps : t <= u
           rawMax == CHOOSE t \in temps : \A u \in temps : t >= u
       IN  [tempMin |-> 10 * rawMin - (rawMax - rawMin),
            tempMax |-> 10 * rawMax + (rawMax - rawMin)]

\* drawOutlookGraph(): tempMin and tempMax of the left axis, in hundredths of a
\* degree, for the entries of the bars.  Temperatures are in tenths, so that
\* tempRange < 1.0 is tempRange < 10 and tempRange * 0.1 in hundredths is
\* tempRange; the arithmetic is taken as exact.
OutlookScale(forecast, bars) ==
  IF Len(bars) = 0 THEN NoScale
  ELSE LET temps     == {At(forecast, bars[k].index).Temperature : k \in 1..Len(bars)}
           rawMin    == CHOOSE t \in temps : \A u \in temps : t <= u
           rawMax    == CHOOSE t \in temps : \A u \in temps : t >= u
           tempRange == IF rawMax - rawMin < 10 THEN 100 ELSE rawMax - rawMin
       IN  [tempMin |-> 10 * rawMin - tempRange, tempMax |-> 10 * rawMax + tempRange]

NoDrawing == [days |-> <<>>, bars |-> <<>>, scale |-> NoScale]

\* DisplayWeather(): now is time(NULL), tz the TZ setting.
DisplayWeather(daily, hourly, now, tz) ==
  CHOOSE shown \in
     {[days |-> drawForecast(daily, max_daily_readings, tz), bars |-> bars,
       scale |-> OutlookScale(hourly, bars)] :
        bars \in {drawOutlookGraph(hourly, max_hourly_readings, now)}} : TRUE

(***************************************************************************)
(* Display driver                                                          *)
(***************************************************************************)
NoEpdCalls == [poweron |-> 0, clear |-> 0, draw |-> 0, poweroff |-> 0]

\* epd_poweron(); epd_clear(); draw<Screen>(); epd_draw_grayscale_image(); epd_poweroff_all();
ShowScreen(screen) ==
  /\ framebuffer' = screen
  /\ epd' = [poweron |-> epd.poweron + 1, clear |-> epd.clear + 1,
             draw |-> epd.draw + 1, poweroff |-> epd.poweroff + 1]
  /\ panel' = screen

(***************************************************************************)
(* Start of a run of setup(): RAM is initialised again, RTC memory, the    *)
(* wall clock, the preferences and the panel image are kept.               *)
(***************************************************************************)
ZeroSettings ==
  [ssid |-> 0, password |-> 0, apikey |-> 0, City |-> 0, Latitude |-> 0,
   Longitude |-> 0, Units |-> "", SleepDuration |-> 0, WakeupHour |-> 0,
   SleepHour |-> 0]

RamInit ==
  /\ settings' = ZeroSettings
  /\ CurrentHour' = 0 /\ CurrentMin' = 0 /\ CurrentSec' = 0
  /\ batVoltage' = 0
  /\ wifiConnected' = FALSE
  /\ locationResult' = -1
  /\ rtcSet' = FALSE
  /\ WakeUp' = FALSE
  /\ Attempts' = 0
  /\ weatherResult' = 2
  /\ results' = <<>>
  /\ framebuffer' = "none"
  /\ epd' = NoEpdCalls
  /\ SleepTimer' = 0
  /\ served' = "none"
  /\ WxHourlyForecast' = NoRecords
  /\ WxDailyForecast' = NoRecords
  /\ WxConditions' = NoConditions
  /\ response' = NoResponse
  /\ TZ' = 0
  /\ drawn' = NoDrawing
  /\ geocode' = NoGeocode

Init ==
  /\ pc = "boot"
  /\ settings = ZeroSettings
  /\ prefs = NoPrefs
  /\ clock = ClockUnset
  /\ wakeClock = ClockUnset
  /\ CurrentHour = 0 /\ CurrentMin = 0 /\ CurrentSec = 0
  /\ lowBatteryScreenShown = FALSE
  /\ batVoltage = 0
  /\ wifiConnected = FALSE
  /\ locationResult = -1
  /\ rtcSet = FALSE
  /\ WakeUp = FALSE
  /\ Attempts = 0
  /\ weatherResult = 2
  /\ results = <<>>
  /\ framebuffer = "none"
  /\ epd = NoEpdCalls
  /\ panel = "factory"
  /\ SleepTimer = 0
  /\ served = "none"
  /\ saved = NoSave
  /\ WxHourlyForecast = NoRecords
  /\ WxDailyForecast = NoRecords
  /\ WxConditions = NoConditions
  /\ response = NoResponse
  /\ TZ = 0
  /\ drawn = NoDrawing
  /\ geocode = NoGeocode

(***************************************************************************)
(* setup()                                                                 *)
(***************************************************************************)
\* InitialiseSystem() and the button check; pressed = buttons 2 and 4 both held.
Boot(pressed) ==
  /\ pc = "boot"
  /\ settings' = initSettings(prefs)
  /\ prefs' = initSettingsPrefs(prefs)
  /\ IF pressed
     THEN /\ ShowScreen("setup_mode")
          /\ pc' = "setup_mode"
     ELSE /\ framebuffer' = "white"
          /\ pc' = "battery"
          /\ UNCHANGED <<epd, panel>>
  /\ UNCHANGED <<clock, CurrentHour, CurrentMin, CurrentSec, lowBatteryScreenShown,
                 batVoltage, wifiConnected, locationResult, rtcSet, WakeUp, Attempts,
                 weatherResult, results, SleepTimer, served, wakeClock, saved, wx, drawn>>

\* Variant of BatteryCheck that goes on to the WiFi connection after the
\* low-battery screen instead of leaving setup().
BatteryCheckNoReturn(mv) ==
  /\ pc = "battery"
  /\ batVoltage' = mv
  /\ IF LowBattery(mv)
     THEN IF ~lowBatteryScreenShown
          THEN /\ ShowScreen("low_battery")
               /\ lowBatteryScreenShown' = TRUE
          ELSE UNCHANGED <<framebuffer, epd, panel, lowBatteryScreenShown>>
     ELSE /\ lowBatteryScreenShown' = IF BatteryGood(mv) THEN FALSE ELSE lowBatteryScreenShown
          /\ UNCHANGED <<framebuffer, epd, panel>>
  /\ pc' = "wifi"
  /\ UNCHANGED <<settings, prefs, clock, CurrentHour, CurrentMin, CurrentSec,
                 wifiConnected, locationResult, rtcSet, WakeUp, Attempts,
                 weatherResult, results, SleepTimer, served, wakeClock, saved, wx, drawn>>

\* Battery check; mv = readBatteryVoltage().
BatteryCheck(mv) ==
  /\ pc = "battery"
  /\ batVoltage' = mv
  /\ IF LowBattery(mv)
     THEN /\ IF ~lowBatteryScreenShown
             THEN /\ ShowScreen("low_battery")
                  /\ lowBatteryScreenShown' = TRUE
             ELSE UNCHANGED <<framebuffer, epd, panel, lowBatteryScreenShown>>
          /\ pc' = "begin_sleep"
     ELSE /\ lowBatteryScreenShown' = IF BatteryGood(mv) THEN FALSE ELSE lowBatteryScreenShown
          /\ pc' = "wifi"
          /\ UNCHANGED <<framebuffer, epd, panel>>
  /\ UNCHANGED <<settings, prefs, clock, CurrentHour, CurrentMin, CurrentSec,
                 wifiConnected, locationResult, rtcSet, WakeUp, Attempts,
                 weatherResult, results, SleepTimer, served, wakeClock, saved, wx, drawn>>

\* Variant of StartWiFi that restarts the chip after a failed connection instead of
\* showing the error screen and going to sleep.
StartWiFiRestartOnFailure(connected) ==
  /\ pc = "wifi"
  /\ wifiConnected' = connected
  /\ pc' = IF connected THEN "validate" ELSE "boot"
  /\ UNCHANGED <<settings, prefs, clock, CurrentHour, CurrentMin, CurrentSec,
                 lowBatteryScreenShown, batVoltage, locationResult, rtcSet, WakeUp,
                 Attempts, weatherResult, results, SleepTimer, served, wakeClock, saved, wx,
                 drawn, framebuffer, epd, panel>>

\* StartWiFi(); connected = (WiFi.status() == WL_CONNECTED).
StartWiFi(connected) ==
  /\ pc = "wifi"
  /\ wifiConnected' = connected
  /\ IF connected
     THEN /\ pc' = "validate"
          /\ UNCHANGED <<framebuffer, epd, panel>>
     ELSE /\ ShowScreen("wifi_error")
          /\ pc' = "begin_sleep"
  /\ UNCHANGED <<settings, prefs, clock, CurrentHour, CurrentMin, CurrentSec,
                 lowBatteryScreenShown, batVoltage, locationResult, rtcSet, WakeUp,
                 Attempts, weatherResult, results, SleepTimer, served, wakeClock, saved, wx, drawn>>

\* validateAndGeocodeLocation() and the two error branches on its result.
ValidateLocation(geo) ==
  /\ pc = "validate"
  /\ LET v == validateAndGeocodeLocation(settings, wifiConnected, geo)
     IN  /\ locationResult' = v.ret
         /\ settings' = v.settings
         /\ prefs' = IF v.save THEN saveSettings(v.settings) ELSE prefs
         /\ geocode' = IF GeocodeRequested(settings, wifiConnected, geo)
                       THEN geo ELSE NoGeocode
         /\ IF v.ret = 1
            THEN ShowScreen("invalid_api_key") /\ pc' = "begin_sleep"
            ELSE IF v.ret = 2
            THEN ShowScreen("invalid_location") /\ pc' = "begin_sleep"
            ELSE pc' = "window" /\ UNCHANGED <<framebuffer, epd, panel>>
  /\ UNCHANGED <<clock, CurrentHour, CurrentMin, CurrentSec, lowBatteryScreenShown,
                 batVoltage, wifiConnected, rtcSet, WakeUp, Attempts, weatherResult,
                 results, SleepTimer, served, wakeClock, saved, WxHourlyForecast,
                 WxDailyForecast, WxConditions, response, TZ, drawn>>

\* The rtc check and the wake-window decision.
CheckWakeWindow ==
  /\ pc = "window"
  /\ rtcSet' = clock.set
  /\ LET cur == IF clock.set THEN UpdateLocalTime(clock, Current) ELSE Current
     IN  /\ CurrentHour' = cur.h
         /\ CurrentMin' = cur.m
         /\ CurrentSec' = cur.s
  /\ WakeUp' = WakeDecision(clock, settings, Current)
  /\ IF WakeUp'
     THEN /\ Attempts' = 1
          /\ weatherResult' = 2
          /\ pc' = "fetch"
     ELSE /\ pc' = "begin_sleep"
          /\ UNCHANGED <<Attempts, weatherResult>>
  /\ UNCHANGED <<settings, prefs, clock, lowBatteryScreenShown, batVoltage,
                 wifiConnected, locationResult, results, framebuffer, epd, panel,
                 SleepTimer, served, wakeClock, saved, wx, drawn>>

\* One iteration of the fetch loop.
FetchAttempt(resp) ==
  /\ pc = "fetch"
  /\ FetchLoopGuard(weatherResult, Attempts)
  /\ response' = resp
  /\ \E o \in {obtainWeatherData(resp, clock, Wx)} :
         /\ weatherResult' = o.ret
         /\ clock' = o.clock
         /\ WxHourlyForecast' = o.hourly
         /\ WxDailyForecast' = o.daily
         /\ WxConditions' = o.cond
         /\ TZ' = o.tz
         /\ results' = Append(results, o.ret)
  /\ Attempts' = Attempts + 1
  /\ UNCHANGED <<pc, settings, prefs, CurrentHour, CurrentMin, CurrentSec,
                 lowBatteryScreenShown, batVoltage, wifiConnected, locationResult,
                 rtcSet, WakeUp, framebuffer, epd, panel, SleepTimer, served, wakeClock, saved,
                 drawn, geocode>>

\* After the loop: the weather display, the invalid-API-key screen or the error screen.
ShowResult ==
  /\ pc = "fetch"
  /\ ~FetchLoopGuard(weatherResult, Attempts)
  /\ IF weatherResult = 0
     THEN /\ LET cur == UpdateLocalTime(clock, Current)
             IN  /\ CurrentHour' = cur.h
                 /\ CurrentMin' = cur.m
                 /\ CurrentSec' = cur.s
          /\ ShowScreen("weather")
          /\ drawn' = DisplayWeather(WxDailyForecast, WxHourlyForecast, clock.now, TZ)
     ELSE /\ IF weatherResult = 1
             THEN ShowScreen("invalid_api_key")
             ELSE ShowScreen("wifi_error")
          /\ UNCHANGED <<CurrentHour, CurrentMin, CurrentSec, drawn>>
  /\ pc' = "begin_sleep"
  /\ UNCHANGED <<settings, prefs, clock, lowBatteryScreenShown, batVoltage,
                 wifiConnected, locationResult, rtcSet, WakeUp, Attempts,
                 weatherResult, results, SleepTimer, served, wakeClock, saved, wx>>

\* BeginSleep(): arm the timer and enter deep sleep.
BeginSleep ==
  /\ pc = "begin_sleep"
  /\ epd' = [epd EXCEPT !.poweroff = @ + 1]
  /\ LET cur == UpdateLocalTime(clock, Current)
     IN  /\ CurrentHour' = cur.h
         /\ CurrentMin' = cur.m
         /\ CurrentSec' = cur.s
         /\ SleepTimer' = SleepSeconds(settings.SleepDuration, cur.m, cur.s)
  /\ pc' = "sleeping"
  /\ UNCHANGED <<settings, prefs, clock, lowBatteryScreenShown, batVoltage,
                 wifiConnected, locationResult, rtcSet, WakeUp, Attempts,
                 weatherResult, results, framebuffer, panel, served, wakeClock, saved, wx, drawn>>

\* The wake timer fires; c is the wall clock at that time if it was set.
TimerWake(c) ==
  /\ pc = "sleeping"
  /\ clock' = IF clock.set THEN c ELSE clock
  /\ wakeClock' = clock'
  /\ RamInit
  /\ pc' = "boot"
  /\ UNCHANGED <<prefs, lowBatteryScreenShown, panel, saved>>

(***************************************************************************)
(* runSetupMode(): one action per HTTP request served                      *)
(***************************************************************************)
\* ESP.restart(): RAM and RTC_DATA_ATTR variables are initialised again.
Restart ==
  /\ RamInit
  /\ wakeClock' = clock
  /\ lowBatteryScreenShown' = FALSE
  /\ pc' = "boot"

\* Any request that is neither /reboot nor /save: the form page.
ServeForm ==
  /\ pc = "setup_mode"
  /\ served' = "form"
  /\ UNCHANGED <<pc, settings, prefs, clock, CurrentHour, CurrentMin, CurrentSec,
                 lowBatteryScreenShown, batVoltage, wifiConnected, locationResult,
                 rtcSet, WakeUp, Attempts, weatherResult, results, framebuffer, epd,
                 panel, SleepTimer, wakeClock, saved, wx, drawn>>

\* GET /reboot
RebootRequest ==
  /\ pc = "setup_mode"
  /\ Restart
  /\ UNCHANGED <<prefs, clock, panel, saved>>

\* GET /save?...  A validation error ends in "return": runSetupMode() returns to
\* setup(), which returns, and loop() runs.
SaveRequest(req) ==
  /\ pc = "setup_mode"
  /\ IF SaveValidationError(req)
     THEN /\ served' = "error"
          /\ pc' = "loop"
          /\ UNCHANGED <<settings, prefs, clock, CurrentHour, CurrentMin, CurrentSec,
                         lowBatteryScreenShown, batVoltage, wifiConnected,
                         locationResult, rtcSet, WakeUp, Attempts, weatherResult,
                         results, framebuffer, epd, panel, SleepTimer, wakeClock, saved, wx, drawn>>
     ELSE /\ prefs' = saveSettings(SavedSettings(settings, req))
          /\ saved' = [startHour |-> req.startHour, stopHour |-> req.stopHour]
          /\ Restart
          /\ UNCHANGED <<clock, panel>>

\* loop() is empty.
Loop ==
  /\ pc = "loop"
  /\ UNCHANGED vars

(***************************************************************************)
(* Inputs of the whole-device specification                                *)
(***************************************************************************)
BatteryReadings == {0, 3199, 3200, 4100}

SampleHours == {5, 10, 23}
SampleMinutes == {0, 23}
SampleSeconds == {0, 45}

SampleClocks ==
  {ClockAt(h, m, s) : h \in SampleHours, m \in SampleMinutes, s \in SampleSeconds}

GeoOutcome(k, la, lo) == [reconnects |-> TRUE, kind |-> k, lat |-> la, lon |-> lo]

SampleGeo ==
  {GeoOutcome("http401", 0, 0), GeoOutcome("httperr", 0, 0), GeoOutcome("empty", 0, 0),
   GeoOutcome("coords", 515085, -1257), GeoOutcome("coords", 910000, 0)}

\* A document with h hourly entries one hour apart, from noon of the sample day.
HourlyDoc(h) ==
  [i \in 1..h |-> [dt |-> SampleMidnight + 3600 * (i + 11), temp |-> 100 + i,
                   pressure |-> 101300, pop |-> 0, clouds |-> 0,
                   rain |-> Absent, snow |-> Absent]]

\* A document with d daily entries one day apart; p0 and p1 are the pressures of
\* the first two.
DailyDoc(d, p0, p1) ==
  [i \in 1..d |-> [dt |-> SampleMidnight + 86400 * (i - 1) + 43200, day |-> 150 + i,
                   min |-> 100 + i,
                   max |-> 200 + i,
                   pressure |-> IF i = 1 THEN p0 ELSE IF i = 2 THEN p1 ELSE 101300,
                   pop |-> 0, clouds |-> 0, rain |-> Absent, snow |-> Absent]]

Response(c, j, cur, ck) ==
  Forecast(c, j, cur, ck, HourlyDoc(3), DailyDoc(2, 101230, 101000))

SampleResponses ==
  {Response(200, "ok", TRUE, ck) : ck \in SampleClocks \cup {ClockUnset}}
  \cup {Response(200, "ok", FALSE, ClockUnset), Response(200, "bad", FALSE, ClockUnset),
        Response(401, "bad", FALSE, ClockUnset), Response(500, "bad", FALSE, ClockUnset)}

Request(key, loc, un, fr, st, sp) ==
  [apikey |-> key, ssid |-> 8, password |-> 8, location |-> loc, units |-> un,
   frequency |-> fr, startHour |-> st, stopHour |-> sp]

SampleRequests ==
  {Request(32, 13, "M", Param("num", 30), Param("num", 6), Param("num", 20)),
   Request(32, 13, "I", Param("num", 0), Param("num", 22), Param("num", 6)),
   Request(32, 0, "", Param("empty", 0), Param("none", 0), Param("none", 0)),
   Request(32, 13, "M", Param("num", 30), Param("num", 24), Param("num", 20)),
   Request(64, 13, "X", Param("num", 30), Param("num", 6), Param("num", 0))}

(***************************************************************************)
(* The device: wake cycles separated by deep sleep, and provisioning       *)
(***************************************************************************)
Cycle ==
  \/ \E pressed \in BOOLEAN : Boot(pressed)
  \/ \E mv \in BatteryReadings : BatteryCheck(mv)
  \/ \E connected \in BOOLEAN : StartWiFi(connected)
  \/ \E geo \in SampleGeo : ValidateLocation(geo)
  \/ CheckWakeWindow
  \/ \E resp \in SampleResponses : FetchAttempt(resp)
  \/ ShowResult
  \/ BeginSleep

Next ==
  \/ Cycle
  \/ \E c \in SampleClocks : TimerWake(c)
  \/ ServeForm
  \/ RebootRequest
  \/ \E req \in SampleRequests : SaveRequest(req)
  \/ Loop

Spec == Init /\ [][Next]_vars

\* The program runs whenever it can: setup() is sequential code, so a cycle that
\* has a next step takes it.
FairSpec == Spec /\ WF_vars(Cycle)

(***************************************************************************)
(* The state of a cycle between two steps of setup(), for given stored     *)
(* settings s and wall clock c, after a boot without buttons, a good       *)
(* battery reading, a WiFi connection and (for "window") a location check  *)
(* that found valid coordinates.                                           *)
(***************************************************************************)
CycleStateWith(at, s, c, mv, shown, connected, located) ==
  /\ pc = at
  /\ settings = s
  /\ prefs = saveSettings(s)
  /\ clock = c
  /\ wakeClock = c
  /\ CurrentHour = 0 /\ CurrentMin = 0 /\ CurrentSec = 0
  /\ lowBatteryScreenShown = shown
  /\ batVoltage = mv
  /\ wifiConnected = connected
  /\ locationResult = located
  /\ rtcSet = FALSE
  /\ WakeUp = FALSE
  /\ Attempts = 0
  /\ weatherResult = 2
  /\ results = <<>>
  /\ framebuffer = "white"
  /\ epd = NoEpdCalls
  /\ panel = "factory"
  /\ SleepTimer = 0
  /\ served = "none"
  /\ saved = NoSave
  /\ WxHourlyForecast = NoRecords
  /\ WxDailyForecast = NoRecords
  /\ WxConditions = NoConditions
  /\ response = NoResponse
  /\ TZ = 0
  /\ drawn = NoDrawing
  /\ geocode = NoGeocode

CycleState(at, s, c, mv, shown) ==
  CycleStateWith(at, s, c, mv, shown, at = "window", IF at = "window" THEN 0 ELSE -1)

(***************************************************************************)
(* Wake-window specification: every wake hour, sleep hour and local hour   *)
(***************************************************************************)
HourClocks == {ClockAt(h, 0, 0) : h \in 0..23} \cup {ClockUnset}

WindowResponses ==
  {Response(200, "ok", TRUE, ClockAt(12, 0, 0)), Response(401, "bad", FALSE, ClockUnset),
   Response(500, "bad", FALSE, ClockUnset)}

WindowInit ==
  \E wakeHour \in 0..23, sleepHour \in 0..24, c \in HourClocks :
     CycleState("window",
                [defaultSettings EXCEPT !.WakeupHour = wakeHour, !.SleepHour = sleepHour],
                c, 4100, FALSE)

WindowNext ==
  \/ CheckWakeWindow
  \/ \E resp \in WindowResponses : FetchAttempt(resp)
  \/ ShowResult

WindowSpec == WindowInit /\ [][WindowNext]_vars

(***************************************************************************)
(* Sleep-duration specification: every refresh interval and minute, and    *)
(* the seconds 0, SecondStride, 2*SecondStride, ... and 59                 *)
(***************************************************************************)
SecondStride == 15

AllClocks ==
  {ClockAt(12, m, s) : m \in 0..59, s \in {x \in 0..59 : x % SecondStride = 0 \/ x = 59}}
  \cup {ClockAt(14, 23, 45)}

SleepInit ==
  \E R \in 1..(MaxInterval - 1), c \in AllClocks :
     CycleState("begin_sleep", [defaultSettings EXCEPT !.SleepDuration = R], c, 3000, TRUE)

SleepNext == BeginSleep

SleepSpec == SleepInit /\ [][SleepNext]_vars

(***************************************************************************)
(* Claims                                                                  *)
(***************************************************************************)
\* The cycle connected, passed location validation and has taken the wake-window
\* decision.
PastWindowCheck ==
  /\ pc \in {"fetch", "begin_sleep", "sleeping"}
  /\ wifiConnected
  /\ locationResult = 0

C2_UnsetClockForcesFetch ==
  (PastWindowCheck /\ ~rtcSet) =>
     /\ WakeUp
     /\ (pc = "fetch" /\ results = <<>>) => FetchLoopGuard(weatherResult, Attempts)
     /\ (pc /= "fetch") => Len(results) >= 1

\* C2 witness: the clock was unset, the stale hour 0 lies outside the window 6..20
\* and a fetch attempt has been made.
C2_Witness ==
  /\ PastWindowCheck /\ ~rtcSet /\ pc = "fetch"
  /\ settings.WakeupHour = 6 /\ settings.SleepHour = 20 /\ CurrentHour = 0
  /\ Len(results) = 1

\* C3: BeginSleep arms (R - (m mod R)) * 60 - s + 30 seconds, R being the refresh
\* interval and m, s the local minute and second; 14:23:45 with R = 60 gives 2205.
C3_SleepSeconds ==
  (pc = "sleeping" /\ clock.set) =>
     /\ SleepTimer = (settings.SleepDuration - (clock.m % settings.SleepDuration)) * 60
                     - clock.s + 30
     /\ (settings.SleepDuration = 60 /\ clock.m = 23 /\ clock.s = 45) => SleepTimer = 2205

\* C3 witness: asleep at 14:23:45 with R = 60 and 2205 seconds armed.
C3_Witness ==
  /\ pc = "sleeping" /\ clock = ClockAt(14, 23, 45)
  /\ settings.SleepDuration = 60 /\ SleepTimer = 2205

\* C4: every wake cycle that does not enter provisioning mode (it reaches the
\* battery check) eventually reaches deep sleep through BeginSleep.
C4_CycleReachesSleep == (pc = "battery") ~> (pc = "sleeping")

\* C4 witness: asleep after both fetch attempts failed.
C4_Witness == pc = "sleeping" /\ results = <<2, 2>> /\ SleepTimer > 0

\* C5: a cycle calls obtainWeatherData at most twice and never after a call that
\* returned 0.
C5_AtMostTwoFetches ==
  /\ Len(results) <= 2
  /\ \A i \in 1..Len(results) : results[i] = 0 => i = Len(results)

\* C5 witness: two attempts were made, the second one succeeded.
C5_Witness == Len(results) = 2 /\ results[2] = 0

\* C6 (as claimed): an attempt that returned 1 (HTTP 401) is the last attempt of
\* its cycle, and the cycle then shows the invalid-API-key screen.
C6_No401Retry ==
  /\ \A i \in 1..Len(results) : results[i] = 1 => i = Len(results)
  /\ (pc \in {"begin_sleep", "sleeping"} /\ \E i \in 1..Len(results) : results[i] = 1)
        => framebuffer = "invalid_api_key"

\* C7: when the first attempt returned 2, exactly one more attempt is made; the
\* generic error screen is shown only if that attempt returned 2 as well, and if it
\* returned 0 the weather is rendered.
C7_OneRetryAfterOtherError ==
  (results /= <<>> /\ results[1] = 2) =>
     /\ (pc = "fetch" /\ Len(results) = 1) => FetchLoopGuard(weatherResult, Attempts)
     /\ (pc = "fetch" /\ Len(results) = 2) => ~FetchLoopGuard(weatherResult, Attempts)
     /\ (pc \in {"begin_sleep", "sleeping"}) =>
           /\ Len(results) = 2
           /\ framebuffer = "wifi_error" => results[2] = 2
           /\ results[2] = 0 => (framebuffer = "weather" /\ panel = "weather")

\* C7 witness: asleep with the weather on the panel after a failed first and a
\* successful second attempt.
C7_Witness == pc = "sleeping" /\ results = <<2, 0>> /\ panel = "weather"

\* C8 (as claimed): provisioning mode is left only by a device reset, control never
\* returns from runSetupMode to setup().
C8_SetupModeLeftOnlyByReset ==
  [][pc = "setup_mode" => pc' \in {"setup_mode", "boot"}]_vars

\* C9 (as claimed): at the battery check of a wake with reading mv millivolts, the
\* low-battery screen is rendered exactly when 0 < mv <= 3200 and the flag is
\* false, and that wake sets the flag; the flag is cleared when mv > 3200 and on no
\* other wake.
C9_LowBatteryScreenOnce ==
  [][(pc = "battery" /\ pc' /= "battery") =>
       LET mv       == batVoltage'
           low      == mv > 0 /\ mv <= 3200
           rendered == epd'.draw > epd.draw
       IN  /\ rendered <=> (low /\ ~lowBatteryScreenShown)
           /\ rendered => (panel' = "low_battery" /\ lowBatteryScreenShown')
           /\ mv > 3200 => ~lowBatteryScreenShown'
           /\ (mv <= 3200 /\ lowBatteryScreenShown) => lowBatteryScreenShown']_vars

\* The wake window as the specification states it.
InsideWakeWindow(wakeHour, sleepHour, h) ==
  \/ sleepHour = 24
  \/ (wakeHour > sleepHour /\ (h >= wakeHour \/ h <= sleepHour))
  \/ (wakeHour <= sleepHour /\ wakeHour <= h /\ h <= sleepHour)

\* This run of setup() started with the clock synchronized and the local hour
\* outside the wake window.
WokeOutsideWindow ==
  /\ wakeClock.set
  /\ ~InsideWakeWindow(settings.WakeupHour, settings.SleepHour, wakeClock.h)

NoFetchNoRedraw ==
  /\ results = <<>>
  /\ epd.poweron = 0 /\ epd.clear = 0 /\ epd.draw = 0

\* C10 (as claimed): in every wake cycle whose local hour is outside the wake
\* window while the clock is synchronized, there is no fetch and no display
\* power-on, clear or framebuffer transfer.
C10_OutsideWindowNoRedraw ==
  (pc \in {"battery", "wifi", "validate", "window", "fetch", "begin_sleep", "sleeping"}
     /\ WokeOutsideWindow) => NoFetchNoRedraw

\* C10 (amended): in every wake cycle that has connected and passed location
\* validation and whose local hour is outside the wake window while the clock is
\* synchronized, there is no fetch and no display power-on, clear or framebuffer
\* transfer.
C10_DormantCycleNoRedraw ==
  (PastWindowCheck /\ WokeOutsideWindow) => NoFetchNoRedraw

\* C10 witness: asleep after a dormant cycle, the weather image of an earlier cycle
\* still on the panel.
C10_Witness ==
  /\ pc = "sleeping" /\ PastWindowCheck /\ WokeOutsideWindow
  /\ panel = "weather" /\ framebuffer = "white"

(***************************************************************************)
(* Setup-form specification: the device starts with the default settings   *)
(* and a synchronized clock; every Start Time and Stop Time the form       *)
(* offers can be saved, and wake cycles happen at every local hour.        *)
(***************************************************************************)
FormStartHours == {Param("none", 0)} \cup {Param("num", h) : h \in 0..23}

FormStopHours == {Param("none", 0)} \cup {Param("num", h) : h \in 1..23}

\* Start Time 6AM with every Stop Time, and Stop Time 8PM with every Start Time.
FormRequests ==
  {Request(32, 13, "M", Param("num", 60), Param("num", 6), sp) : sp \in FormStopHours}
  \cup
  {Request(32, 13, "M", Param("num", 60), st, Param("num", 20)) : st \in FormStartHours}

SyncedHourClocks == {ClockAt(h, 0, 0) : h \in 0..23}

FormInit ==
  \E c \in SyncedHourClocks : CycleState("boot", defaultSettings, c, 0, FALSE)

FormNext ==
  \/ \E pressed \in BOOLEAN : Boot(pressed)
  \/ \E req \in FormRequests : SaveRequest(req)
  \/ BatteryCheck(4100)
  \/ StartWiFi(TRUE)
  \/ ValidateLocation(GeoOutcome("coords", 515085, -1257))
  \/ CheckWakeWindow
  \/ \E resp \in WindowResponses : FetchAttempt(resp)
  \/ ShowResult
  \/ BeginSleep
  \/ \E c \in SyncedHourClocks : TimerWake(c)

FormSpec == FormInit /\ [][FormNext]_vars

\* This run of setup() neither fetched the forecast nor displayed an update.
NoUpdate == results = <<>> /\ framebuffer /= "weather" /\ ~WakeUp

\* C11 (as claimed): with Start Time 6 saved through the form and the clock
\* synchronized, a wake cycle at local hour 0..5 neither fetches nor displays an
\* update, whatever Stop Time was saved with it ("none" included).
C11_StartTimeSixNoUpdateBeforeSix ==
  (saved.startHour = Param("num", 6) /\ wakeClock.set /\ wakeClock.h \in 0..5)
     => NoUpdate

\* C12 (as claimed): with Stop Time 20 saved through the form and the clock
\* synchronized, a wake cycle at local hour 20..23 neither fetches nor displays an
\* update.
C12_StopTimeTwentyNoUpdateFromTwenty ==
  (saved.stopHour = Param("num", 20) /\ wakeClock.set /\ wakeClock.h \in 20..23)
     => NoUpdate

(***************************************************************************)
(* Decode specification: one wake cycle whose forecast responses carry     *)
(* every number of hourly and daily entries up to the bounds, or every     *)
(* pair of sample pressures for the first two days.                        *)
(***************************************************************************)
MaxHourlyEntries == 60
MaxDailyEntries == 10

SamplePressures == {100800, 101000, 101007, 101230}

DecodeResponses ==
  {Forecast(200, "ok", TRUE, ClockAt(12, 0, 0), HourlyDoc(h), DailyDoc(d, 101230, 101000)) :
      h \in 0..MaxHourlyEntries, d \in 0..MaxDailyEntries}
  \cup
  {Forecast(200, "ok", TRUE, ClockAt(12, 0, 0), HourlyDoc(3), DailyDoc(d, p0, p1)) :
      d \in 1..3, p0 \in SamplePressures, p1 \in SamplePressures}
  \cup {Forecast(200, "bad", FALSE, ClockUnset, <<>>, <<>>)}

DecodeInit == CycleState("window", defaultSettings, ClockAt(12, 0, 0), 4100, FALSE)

DecodeNext ==
  \/ CheckWakeWindow
  \/ \E resp \in DecodeResponses : FetchAttempt(resp)
  \/ ShowResult

DecodeSpec == DecodeInit /\ [][DecodeNext]_vars

\* The last response of this cycle was decoded successfully.
Decoded == response.code = 200 /\ response.json = "ok"

\* C13: after a successful decode of a document with h hourly and d daily entries
\* exactly the records 0..min(h,48)-1 and 0..min(d,8)-1 are written, record i from
\* source entry i; no index at or beyond the capacity is ever written.
C13_DecodeCapsRecords ==
  /\ DOMAIN WxHourlyForecast \subseteq 0..(max_hourly_readings - 1)
  /\ DOMAIN WxDailyForecast \subseteq 0..(max_daily_readings - 1)
  /\ Decoded =>
       /\ DOMAIN WxHourlyForecast = 0..(Min(Len(response.hourly), 48) - 1)
       /\ DOMAIN WxDailyForecast = 0..(Min(Len(response.daily), 8) - 1)
       /\ \A i \in DOMAIN WxHourlyForecast :
             WxHourlyForecast[i] = HourlyRecord(response.hourly[i + 1])
       /\ \A i \in DOMAIN WxDailyForecast :
             WxDailyForecast[i] = DailyRecord(response.daily[i + 1])

\* C13 witness: a document with 60 hourly and 10 daily entries was decoded; the
\* 48th hourly entry is kept and the 49th is absent.
C13_Witness ==
  /\ Decoded
  /\ Len(response.hourly) = 60 /\ Len(response.daily) = 10
  /\ WxHourlyForecast[47].Dt = response.hourly[48].dt
  /\ 48 \notin DOMAIN WxHourlyForecast
  /\ 8 \notin DOMAIN WxDailyForecast

\* x hundredths rounded to the nearest tenth, halves away from zero.
RoundTenths(x) == IF x >= 0 THEN (x + 5) \div 10 ELSE -((-x + 5) \div 10)

\* The trend the claim gives for the pressures p0 and p1 of the document.
ClaimedTrend(p0, p1) ==
  IF RoundTenths(p0 - p1) > 0 THEN "+"
  ELSE IF RoundTenths(p0 - p1) < 0 THEN "-" ELSE "="

\* C14 (as claimed): after a successful decode with at least 2 daily entries the
\* trend is "+" iff daily[0].pressure - daily[1].pressure rounded to one decimal is
\* > 0, "-" iff it is < 0 and "=" otherwise; with fewer than 2 daily entries the
\* trend keeps the value it had.
C14_PressureTrend ==
  Decoded =>
    IF Len(response.daily) >= 2
    THEN WxConditions.Trend =
            ClaimedTrend(response.daily[1].pressure, response.daily[2].pressure)
    ELSE WxConditions.Trend = NoConditions.Trend

(***************************************************************************)
(* Grouping specification: one wake cycle whose forecast response carries  *)
(* 8 daily periods in chronological order, spread in every way over seven  *)
(* days around a new year, from a place 5 hours west of, at, or 5 hours    *)
(* east of UTC.                                                            *)
(***************************************************************************)
GroupDays == MaxForecastDays + 2

\* The time of the periods of day k (from 0, 2025-12-29): 12:00 UTC, but 22:00 on
\* day 1 and 03:00 on day 2, which 5 hours east or west of UTC are one local day.
GroupTime(k) ==
  SampleMidnight + (k - 3) * 86400
    + (IF k = 1 THEN 22 ELSE IF k = 2 THEN 3 ELSE 12) * 3600

\* The ways to spread 8 periods over the days in order: the positions, among
\* 8 + GroupDays - 1 places, of the steps from one day to the next.
GroupSteps ==
  {S \in SUBSET (1..(max_daily_readings + GroupDays - 1)) :
      Cardinality(S) = GroupDays - 1}

\* The place of period i (from 1): the i-th place that is not a step.
RECURSIVE PlaceOf(_, _, _)
PlaceOf(S, i, place) ==
  IF place \in S THEN PlaceOf(S, i, place + 1)
  ELSE IF i = 1 THEN place
  ELSE PlaceOf(S, i - 1, place + 1)

GroupDaily(S) ==
  [i \in 1..max_daily_readings |->
     LET k == Cardinality({x \in S : x < PlaceOf(S, i, 1)})
     IN  [dt |-> GroupTime(k), day |-> 150, min |-> 100 - 10 * ((3 * i) % 4),
          max |-> 200 + 10 * ((7 * i) % 5), pressure |-> 101300, pop |-> 0,
          clouds |-> 10 * i, rain |-> Absent, snow |-> Absent]]

GroupOffsets == {-18000, 0, 18000}

GroupResponses ==
  {ForecastIn(tzo, Forecast(200, "ok", TRUE, ClockAt(12, 0, 0), HourlyDoc(3),
                            GroupDaily(S))) :
      tzo \in GroupOffsets, S \in GroupSteps}
  \cup {Forecast(200, "bad", FALSE, ClockUnset, <<>>, <<>>)}

GroupInit == CycleState("window", defaultSettings, ClockAt(12, 0, 0), 4100, FALSE)

GroupNext ==
  \/ CheckWakeWindow
  \/ \E resp \in GroupResponses : FetchAttempt(resp)
  \/ ShowResult

GroupSpec == GroupInit /\ [][GroupNext]_vars

\* The weather display of this cycle has been drawn.
Rendered == framebuffer = "weather"

\* The periods drawForecast() reads.
Periods == [i \in 0..(max_daily_readings - 1) |-> At(WxDailyForecast, i)]

Chronological ==
  \A i \in 0..(max_daily_readings - 2) : Periods[i].Dt <= Periods[i + 1].Dt

\* The local day of a time, as a day number.
LocalDayOf(t) == (t - TZ * 3600) \div 86400

LocalDays == {LocalDayOf(Periods[i].Dt) : i \in DOMAIN Periods}

IconClouds == {5, 10, 11, 25, 26, 50, 51, 75, 76, 100}

\* Hundredths, as the document writes them.
IconPops == {0, 10, 29, 30, 50, 51}

\* Hundredths of a millimetre.
IconRains == {0, 50, 51, 200, 201}

IconSnows == {0, 50, 51, 60}

IconDaily(c, p, r, sn, day) ==
  [i \in 1..max_daily_readings |->
     [dt |-> SampleMidnight + (i - 1) * 86400 + (IF day THEN 12 ELSE 3) * 3600,
      day |-> 150, min |-> 100, max |-> 200, pressure |-> 101300, pop |-> p,
      clouds |-> c, rain |-> r, snow |-> sn]]

IconResponses ==
  {Forecast(200, "ok", TRUE, ClockAt(12, 0, 0), HourlyDoc(3),
            IconDaily(c, p, r, sn, day)) :
      c \in IconClouds, p \in IconPops, r \in IconRains, sn \in IconSnows,
      day \in BOOLEAN}
  \cup {Forecast(200, "bad", FALSE, ClockUnset, <<>>, <<>>)}

IconInit == CycleState("window", defaultSettings, ClockAt(12, 0, 0), 4100, FALSE)

IconNext ==
  \/ CheckWakeWindow
  \/ \E resp \in IconResponses : FetchAttempt(resp)
  \/ ShowResult

IconSpec == IconInit /\ [][IconNext]_vars

\* The probability 1.0 in the units of PopFloat.
PopOne == PopFloat(100)

\* The icon code of the first rule that matches, with the thresholds 0.5, 2.0 and
\* 0.3 compared exactly.
FirstMatchCode(avgCloudCover, maxPop, totalRainfall, totalSnowfall) ==
  IF 2 * totalSnowfall > 100 THEN "13"
  ELSE IF 2 * maxPop > PopOne \/ totalRainfall > 2 * 100 THEN "11"
  ELSE IF 10 * maxPop > 3 * PopOne \/ 2 * totalRainfall > 100 THEN "10"
  ELSE IF avgCloudCover <= 10 THEN "01"
  ELSE IF avgCloudCover <= 25 THEN "02"
  ELSE IF avgCloudCover <= 50 THEN "03"
  ELSE "04"

\* C16: the icon of every displayed day is the code of the first matching rule
\* (snowfall > 0.5: 13; maxPop > 0.5 or rainfall > 2.0: 11; maxPop > 0.3 or
\* rainfall > 0.5: 10; cloud cover <= 10: 01, <= 25: 02, <= 50: 03, else 04)
\* followed by d exactly when isDay holds and by n otherwise.
C16_IconFirstMatch ==
  Rendered =>
     \A j \in 1..Len(drawn.days) :
        LET d == drawn.days[j]
        IN  d.icon = [code |-> FirstMatchCode(d.stats.totalCloudCover, d.stats.maxPop,
                                              d.stats.totalRainfall,
                                              d.stats.totalSnowfall),
                      dayNight |-> IF d.isDay THEN "d" ELSE "n"]

\* C16 witness: cloud cover 5, probability 0.1, no rain, snowfall 0.6 by day was
\* drawn as 13d.
C16_Witness ==
  /\ Rendered
  /\ \E j \in 1..Len(drawn.days) :
        LET d == drawn.days[j]
        IN  /\ d.stats.totalCloudCover = 5 /\ d.stats.maxPop = PopFloat(10)
            /\ d.stats.totalRainfall = 0 /\ d.stats.totalSnowfall = 60 /\ d.isDay
            /\ d.icon = [code |-> "13", dayNight |-> "d"]

\* The sum of the widths of the first n bars.
RECURSIVE WidthSum(_, _)
WidthSum(bars, n) == IF n = 0 THEN 0 ELSE WidthSum(bars, n - 1) + bars[n].width

\* C17: the N (1..24) precipitation bars partition the 665 pixels of the chart:
\* bar 0 starts at the left edge, every bar starts where the one before ends, the
\* last ends at the right edge, the widths are positive, differ by at most 1 and
\* add up to 665.
C17_BarsPartitionChartWidth ==
  Rendered =>
     LET bars == drawn.bars
         N    == Len(bars)
     IN  /\ N \in 1..24
         /\ bars[1].x = graphX
         /\ \A i \in 1..(N - 1) : bars[i].x + bars[i].width = bars[i + 1].x
         /\ bars[N].x + bars[N].width = graphX + graphWidth
         /\ \A i \in 1..N : bars[i].width > 0
         /\ \A i, j \in 1..N : bars[i].width - bars[j].width <= 1
         /\ WidthSum(bars, N) = graphWidth

\* C17 witness: 24 bars were drawn, not all of one width.
C17_Witness ==
  /\ Rendered
  /\ Len(drawn.bars) = 24
  /\ \E i, j \in 1..24 : drawn.bars[i].width /= drawn.bars[j].width

(***************************************************************************)
(* Geocoding specification: validateAndGeocodeLocation() called with the   *)
(* stored coordinates valid or not, each of the location, the API key and  *)
(* the SSID present or empty, WiFi up or down, and every kind of answer to *)
(* the geocoding request.                                                  *)
(***************************************************************************)
GeoSettings ==
  {[defaultSettings EXCEPT !.Latitude = la, !.Longitude = la, !.City = city,
                           !.apikey = key, !.ssid = id] :
      la \in {InvalidCoord, 418832}, city \in {0, 13}, key \in {0, 6}, id \in {0, 4}}

GeoAnswers ==
  {[reconnects |-> r, kind |-> k, lat |-> 0, lon |-> 0] :
      r \in BOOLEAN, k \in {"http401", "httperr", "badjson", "empty", "nolatlon"}}
  \cup {[reconnects |-> r, kind |-> "coords", lat |-> la, lon |-> lo] :
          r \in BOOLEAN, la \in {-900001, -900000, 515085, 900000, 900001},
          lo \in {-1800001, -1800000, -1257, 1800000, 1800001}}

GeoInit ==
  \E s \in GeoSettings, connected \in BOOLEAN :
     CycleStateWith("validate", s, ClockAt(12, 0, 0), 4100, FALSE, connected, -1)

GeoNext == \E geo \in GeoAnswers : ValidateLocation(geo)

GeoSpec == GeoInit /\ [][GeoNext]_vars

\* validateAndGeocodeLocation() is called in this step.
Validated == pc = "validate" /\ pc' /= "validate"

\* The geocoding request was answered with coordinates in range, and these are
\* now the coordinates in RAM and in the preferences.
GeocodedAndSaved ==
  /\ geocode'.kind = "coords"
  /\ geocode'.lat >= -900000 /\ geocode'.lat <= 900000
  /\ geocode'.lon >= -1800000 /\ geocode'.lon <= 1800000
  /\ settings'.Latitude = geocode'.lat /\ settings'.Longitude = geocode'.lon
  /\ prefs' = saveSettings(settings')

\* C18: validateAndGeocodeLocation returns 0 only when the stored coordinates were
\* valid or the first geocoding result was in range and saved, 1 exactly when the
\* geocoding request got HTTP 401, and 2 on every other failure.
C18_GeocodeReturnCodes ==
  [][Validated =>
       /\ locationResult' \in {0, 1, 2}
       /\ locationResult' = 0 => (CoordsValid(settings) \/ GeocodedAndSaved)
       /\ locationResult' = 1 <=> geocode'.kind = "http401"
       /\ (~CoordsValid(settings) /\ ~GeocodedAndSaved /\ geocode'.kind /= "http401")
             => locationResult' = 2]_vars

(***************************************************************************)
(* Save specification: from a first boot with nothing stored, provisioning *)
(* mode is entered again and again and receives /save requests whose       *)
(* frequency, startHour and stopHour are absent, "none", or numbers at and *)
(* around the limits; after a rejected request the device is reset.        *)
(***************************************************************************)
SaveFrequencies ==
  {Param("empty", 0)}
  \cup {Param("num", v) : v \in {-1, 0, 1, MaxInterval - 1, MaxInterval}}

SaveStartHours ==
  {Param("empty", 0), Param("none", 0)} \cup {Param("num", v) : v \in {-1, 0, 6, 23, 24}}

SaveStopHours ==
  {Param("empty", 0), Param("none", 0)} \cup {Param("num", v) : v \in {0, 1, 6, 23, 24}}

SaveRequests ==
  {Request(32, 13, "M", fr, st, sp) :
      fr \in SaveFrequencies, st \in SaveStartHours, sp \in SaveStopHours}
  \cup {Request(32, 13, "X", Param("num", 30), Param("num", 6), Param("num", 20))}

\* The reset that ends the empty loop(): the program starts again.
HardwareReset ==
  /\ pc = "loop"
  /\ Restart
  /\ UNCHANGED <<prefs, clock, panel, saved>>

SaveNext ==
  \/ Boot(TRUE)
  \/ \E req \in SaveRequests : SaveRequest(req)
  \/ HardwareReset

SaveSpec == Init /\ [][SaveNext]_vars

\* The configuration a boot loads from the preferences.
StoredConfig == initSettings(prefs)

\* C19: from the default settings, after any sequence of accepted or rejected
\* /save requests the stored configuration has a refresh interval in 1..1439, a
\* wake hour in 0..23 and a sleep hour in 1..23 or equal to 24.
C19_StoredConfigInRange ==
  /\ StoredConfig.SleepDuration \in 1..1439
  /\ StoredConfig.WakeupHour \in 0..23
  /\ StoredConfig.SleepHour \in (1..23) \cup {24}

\* C19 witness: a request with the start hour 23 and an earlier stop hour was
\* accepted and stored with the longest interval.
C19_Witness ==
  /\ saved.startHour = Param("num", 23)
  /\ saved.stopHour = Param("num", 6)
  /\ prefs.magic
  /\ prefs.data.SleepDuration = 1439
  /\ prefs.data.WakeupHour = 23
  /\ prefs.data.SleepHour = 23

(***************************************************************************)
(* Wake-target specification: cycles with a low battery (the shortest way  *)
(* from wake-up to BeginSleep) for every refresh interval.  Each cycle     *)
(* starts WakeDelays seconds after the target the BeginSleep before it     *)
(* computed; the first one follows a BeginSleep at one of DriftStarts.     *)
(***************************************************************************)
\* The wall clock at the time t, TZ not set.
ClockOf(t) ==
  [set |-> TRUE, now |-> t, h |-> gmtime(t).tm_hour, m |-> gmtime(t).tm_min,
   s |-> gmtime(t).tm_sec]

\* The instant BeginSleep at the clock c aims at: the armed time without Delta.
WakeTarget(R, c) == c.now + SleepSeconds(R, c.m, c.s) - Delta

\* Seconds from the target to the BeginSleep of the cycle it starts.
WakeDelays == {0, Delta, 45}

DriftStarts == {ClockAt(12, 0, 0), ClockAt(12, 23, 45), ClockAt(12, 59, 59)}

\* Cycles are followed up to 13:00.
DriftHorizon == SampleMidnight + 13 * 3600

DriftInit ==
  \E R \in 1..(MaxInterval - 1), p \in DriftStarts, d \in WakeDelays :
     CycleState("boot", [defaultSettings EXCEPT !.SleepDuration = R],
                ClockOf(WakeTarget(R, p) + d), 3000, TRUE)

DriftNext ==
  \/ Boot(FALSE)
  \/ BatteryCheck(3000)
  \/ BeginSleep
  \/ \E d \in WakeDelays :
        /\ clock.now < DriftHorizon
        /\ TimerWake(ClockOf(WakeTarget(settings.SleepDuration, clock) + d))

DriftSpec == DriftInit /\ [][DriftNext]_vars

\* C20: for every refresh interval R the instant BeginSleep aims at is at second 0
\* of a minute that is a multiple of R (minutes counted from the start of the
\* current hour), and it is exactly R minutes after the target of the cycle
\* before, which is the start of the minute in which this cycle woke.
C20_WakeTargetsEveryInterval ==
  [][(pc = "begin_sleep" /\ pc' = "sleeping") =>
       LET R        == settings.SleepDuration
           target   == clock.now + SleepTimer' - Delta
           hour     == clock.now - clock.m * 60 - clock.s
           previous == wakeClock.now - wakeClock.s
       IN  /\ (target - hour) % 60 = 0
           /\ ((target - hour) \div 60) % R = 0
           /\ target - previous = R * 60]_vars

(***************************************************************************)
(* Outlook specification: one wake cycle whose forecast response carries   *)
(* 48 hourly entries one hour apart from 12:00 on, and whose current.dt    *)
(* (the time the clock is set to) is placed every half hour from more than *)
(* a day before the first entry to after the last.                         *)
(***************************************************************************)
OutlookTimes == {SampleMidnight + 12 * 3600 + k * 1800 : k \in -54..100}

OutlookResponses ==
  {Forecast(200, "ok", TRUE, ClockOf(t), HourlyDoc(max_hourly_readings),
            DailyDoc(2, 101230, 101000)) : t \in OutlookTimes}
  \cup {Forecast(200, "bad", FALSE, ClockUnset, <<>>, <<>>)}

OutlookInit == CycleState("window", defaultSettings, ClockAt(12, 0, 0), 4100, FALSE)

OutlookNext ==
  \/ CheckWakeWindow
  \/ \E resp \in OutlookResponses : FetchAttempt(resp)
  \/ ShowResult

OutlookSpec == OutlookInit /\ [][OutlookNext]_vars

\* The indices of the hourly entries whose time is in [now - 3600, now + 86400].
Qualifying ==
  {i \in 0..(max_hourly_readings - 1) :
      /\ At(WxHourlyForecast, i).Dt >= clock.now - 3600
      /\ At(WxHourlyForecast, i).Dt <= clock.now + 86400}

\* The bars are those of the first n qualifying entries, in collection order.
BarsAreFirst(n) ==
  /\ Len(drawn.bars) = n
  /\ \A k \in 1..n :
        /\ drawn.bars[k].index \in Qualifying
        /\ Cardinality({j \in Qualifying : j < drawn.bars[k].index}) = k - 1

\* C21 as stated: drawOutlookGraph selects exactly the entries in
\* [now - 3600, now + 86400], in collection order, and the first entry alone when
\* none qualifies.
C21_SelectsAllInWindow ==
  Rendered =>
     IF Qualifying = {}
     THEN Len(drawn.bars) = 1 /\ drawn.bars[1].index = 0
     ELSE BarsAreFirst(Cardinality(Qualifying))

\* C21 amended: drawOutlookGraph selects the first 24 of the entries in
\* [now - 3600, now + 86400] (all of them when there are at most 24), in
\* collection order, and the first entry alone when none qualifies.
C21_SelectsFirst24InWindow ==
  Rendered =>
     IF Qualifying = {}
     THEN Len(drawn.bars) = 1 /\ drawn.bars[1].index = 0
     ELSE BarsAreFirst(Min(Cardinality(Qualifying), 24))

\* C21 witness: 26 entries qualify, the first of them one hour in the past, and
\* 24 were selected.
C21_Witness ==
  /\ Rendered
  /\ Cardinality(Qualifying) = 26
  /\ \E i \in Qualifying : At(WxHourlyForecast, i).Dt = clock.now - 3600
  /\ Len(drawn.bars) = 24

(***************************************************************************)
(* Bucket specification: one wake cycle whose forecast response carries 8  *)
(* daily periods in chronological order, spread in every way over seven    *)
(* days, with differing cloud cover, probability, rainfall and snowfall.   *)
(***************************************************************************)
BucketDaily(S) ==
  [i \in 1..max_daily_readings |->
     LET k == Cardinality({x \in S : x < PlaceOf(S, i, 1)})
     IN  [dt |-> GroupTime(k), day |-> 150, min |-> 100, max |-> 200,
          pressure |-> 101300, pop |-> 10 * ((3 * i) % 7),
          clouds |-> (7 * i * i) % 101,
          rain |-> IF i % 3 = 0 THEN Absent ELSE 25 * i,
          snow |-> IF i % 2 = 0 THEN 10 * i ELSE Absent]]

BucketResponses ==
  {Forecast(200, "ok", TRUE, ClockAt(12, 0, 0), HourlyDoc(3), BucketDaily(S)) :
      S \in GroupSteps}
  \cup {Forecast(200, "bad", FALSE, ClockUnset, <<>>, <<>>)}

BucketInit == CycleState("window", defaultSettings, ClockAt(12, 0, 0), 4100, FALSE)

BucketNext ==
  \/ CheckWakeWindow
  \/ \E resp \in BucketResponses : FetchAttempt(resp)
  \/ ShowResult

BucketSpec == BucketInit /\ [][BucketNext]_vars

\* The periods of the bucket whose first period has the time t: those of the
\* same local day.
BucketPeriods(t) ==
  {i \in DOMAIN Periods : LocalDayOf(Periods[i].Dt) = LocalDayOf(t)}

\* The sum of the values v[i] for i in P.
RECURSIVE SumOver(_, _)
SumOver(v, P) ==
  IF P = {} THEN 0
  ELSE LET i == CHOOSE x \in P : TRUE IN v[i] + SumOver(v, P \ {i})

MeanCloudCover(P) ==
  TruncDiv(SumOver([i \in P |-> Periods[i].Cloudcover], P), Cardinality(P))

\* C22: for every bucket of drawForecast the cloud cover given to the icon
\* classifier is the integer mean (sum / count, divided once) of the cloud cover
\* of the bucket's periods, maxPop is their maximal probability, the rainfall and
\* snowfall are their sums, and the timestamp is that of the first period.
C22_BucketStatistics ==
  (Rendered /\ Chronological) =>
     \A j \in 1..Len(drawn.days) :
        LET d == drawn.days[j].stats
            P == BucketPeriods(d.dayTime)
            first == CHOOSE i \in P : \A x \in P : i <= x
        IN  /\ P /= {}
            /\ d.cloudCoverCount = Cardinality(P)
            /\ d.totalCloudCover = MeanCloudCover(P)
            /\ \A i \in P : d.maxPop >= Periods[i].Pop
            /\ \E i \in P : d.maxPop = Periods[i].Pop
            /\ d.totalRainfall = SumOver([i \in P |-> Periods[i].Rainfall], P)
            /\ d.totalSnowfall = SumOver([i \in P |-> Periods[i].Snowfall], P)
            /\ d.firstPeriodIndex = first
            /\ d.dayTime = Periods[first].Dt
            /\ drawn.days[j].icon =
                  getIconFromCloudCover(MeanCloudCover(P), d.maxPop, d.totalRainfall,
                                        d.totalSnowfall, drawn.days[j].isDay)

\* C22 witness: five buckets were drawn of periods of six days; the fifth has
\* several periods, a cloud cover sum that its count does not divide and rain in
\* more than one period, and is followed by a period of the sixth day.
C22_Witness ==
  /\ Rendered /\ Chronological
  /\ Len(drawn.days) = 5
  /\ Cardinality(LocalDays) = 6
  /\ LET d == drawn.days[5].stats
         P == BucketPeriods(d.dayTime)
     IN  /\ Cardinality(P) >= 2
         /\ SumOver([i \in P |-> Periods[i].Cloudcover], P) % Cardinality(P) /= 0
         /\ Cardinality({i \in P : Periods[i].Rainfall > 0}) >= 2
         /\ \E i \in DOMAIN Periods : Periods[i].Dt > d.dayTime /\ i \notin P

(***************************************************************************)
(* Scale specification: one wake cycle whose forecast response carries 48  *)
(* hourly entries whose temperatures lie around a base, below or above     *)
(* zero, with a spread from none to 6 degrees.                             *)
(***************************************************************************)
ScaleSpreads == 0..60
ScaleBases == {-50, 150}

ScaleHourly(base, spread) ==
  [i \in 1..max_hourly_readings |->
     [dt |-> SampleMidnight + 3600 * (i + 11),
      temp |-> base + ((spread * ((7 * i) % 11)) \div 10),
      pressure |-> 101300, pop |-> 0, clouds |-> 50, rain |-> Absent, snow |-> Absent]]

ScaleResponses ==
  {Forecast(200, "ok", TRUE, ClockAt(12, 0, 0), ScaleHourly(base, spread),
            DailyDoc(2, 101230, 101000)) : base \in ScaleBases, spread \in ScaleSpreads}
  \cup {Forecast(200, "bad", FALSE, ClockUnset, <<>>, <<>>)}

ScaleInit == CycleState("window", defaultSettings, ClockAt(12, 0, 0), 4100, FALSE)

ScaleNext ==
  \/ CheckWakeWindow
  \/ \E resp \in ScaleResponses : FetchAttempt(resp)
  \/ ShowResult

ScaleSpec == ScaleInit /\ [][ScaleNext]_vars

\* The temperatures of the selected entries, in tenths of a degree.
SelectedTemperatures ==
  {At(WxHourlyForecast, drawn.bars[k].index).Temperature : k \in 1..Len(drawn.bars)}

RawMin == CHOOSE t \in SelectedTemperatures : \A u \in SelectedTemperatures : t <= u

RawMax == CHOOSE t \in SelectedTemperatures : \A u \in SelectedTemperatures : t >= u

\* The scale is [rawMin - 0.1 * range, rawMax + 0.1 * range], in hundredths, where
\* range is the raw range, or 10 degrees when the raw range is below one degree.
ScaleIsPadded ==
  LET range == IF RawMax - RawMin < 10 THEN 100 ELSE RawMax - RawMin
  IN  /\ drawn.scale.tempMin = 10 * RawMin - range
      /\ drawn.scale.tempMax = 10 * RawMax + range

\* C23 as stated: the scale is the raw range padded by a tenth of the range on
\* each side, the range being replaced by 10 units when below 1 unit, and the
\* scale spans at least 10 units and is never empty.
C23_ScaleSpansTenUnits ==
  Rendered =>
     /\ ScaleIsPadded
     /\ drawn.scale.tempMax - drawn.scale.tempMin >= 1000

\* C23 amended: the scale is the raw range padded by a tenth of the range on each
\* side, the range being replaced by 10 units when below 1 unit for the padding
\* only: the scale spans the raw range plus 2 units when the raw range is below 1
\* unit and 1.2 times the raw range otherwise, so at least 1.2 units, and is
\* never empty.
C23_ScaleSpansPaddedRange ==
  Rendered =>
     /\ ScaleIsPadded
     /\ drawn.scale.tempMax - drawn.scale.tempMin =
           IF RawMax - RawMin < 10 THEN 10 * (RawMax - RawMin) + 200
           ELSE 12 * (RawMax - RawMin)
     /\ drawn.scale.tempMax - drawn.scale.tempMin >= 120
     /\ drawn.scale.tempMax /= drawn.scale.tempMin

\* C23 witness: a graph was drawn of entries that all have the same temperature,
\* on a scale of 2 units.
C23_Witness ==
  /\ Rendered
  /\ Len(drawn.bars) = 24
  /\ RawMax = RawMin
  /\ drawn.scale.tempMax - drawn.scale.tempMin = 200

(***************************************************************************)
(* Timezone specification: one wake cycle whose forecast response comes    *)
(* from a place west or east of UTC by whole hours, by half hours or by    *)
(* three quarters of an hour, at one of the sample times.                  *)
(***************************************************************************)
TimezoneOffsets ==
  {-43200, -34200, -18000, -3600, -1800, 0, 1800, 3600, 19800, 20700, 43200, 50400}

TimezoneResponses ==
  {ForecastIn(tzo, Forecast(200, "ok", TRUE, c, HourlyDoc(3),
                            DailyDoc(2, 101230, 101000))) :
      tzo \in TimezoneOffsets, c \in SampleClocks}
  \cup {Forecast(200, "bad", FALSE, ClockUnset, <<>>, <<>>)}

TimezoneInit == CycleState("window", defaultSettings, ClockUnset, 4100, FALSE)

TimezoneNext ==
  \/ CheckWakeWindow
  \/ \E resp \in TimezoneResponses : FetchAttempt(resp)
  \/ ShowResult
  \/ BeginSleep

TimezoneSpec == TimezoneInit /\ [][TimezoneNext]_vars

\* The fields of the local time at the place of the response: those of the UTC
\* time plus timezone_offset.
LocalTimeOfResponse == gmtime(clock.now + response.timezone_offset)

\* C24: for every timezone offset the setting SetRTCTimeFromAPI stores stands for
\* that offset, so that the local hour and minute BeginSleep and the wake-window
\* check read are those of the UTC time plus timezone_offset.
C24_LocalTimeFromOffset ==
  (weatherResult = 0 /\ pc \in {"begin_sleep", "sleeping"}) =>
     /\ localtime(clock.now, TZ).tm_hour = LocalTimeOfResponse.tm_hour
     /\ localtime(clock.now, TZ).tm_min = LocalTimeOfResponse.tm_min
     /\ CurrentHour = LocalTimeOfResponse.tm_hour
     /\ CurrentMin = LocalTimeOfResponse.tm_min

(***************************************************************************)
(* One display update per wake cycle                                       *)
(***************************************************************************)
Screens ==
  {"setup_mode", "low_battery", "invalid_api_key", "invalid_location", "wifi_error",
   "weather"}

\* C25: in every wake cycle, on every branch, the framebuffer is transferred to
\* the display at most once, and when it is, exactly one screen (setup, low
\* battery, invalid API key, invalid location, WiFi or generic error, weather) has
\* been drawn into the framebuffer before; without a transfer none is drawn.
C25_OneTransferOfOneScreen ==
  /\ epd.draw <= 1
  /\ epd.clear = epd.draw
  /\ epd.poweron = epd.draw
  /\ epd.draw = 1 => framebuffer \in Screens /\ panel = framebuffer
  /\ epd.draw = 0 => framebuffer \notin Screens

\* C25 witness: a cycle ended with the weather display transferred once, after a
\* first fetch that failed.
C25_Witness ==
  /\ pc = "sleeping"
  /\ results = <<2, 0>>
  /\ epd.draw = 1
  /\ framebuffer = "weather"

(***************************************************************************)
(* Armed-duration specification: BeginSleep for every refresh interval at  *)
(* every clock of the sleep-duration specification and with a clock that   *)
(* was never set, where CurrentMin and CurrentSec are still 0.             *)
(***************************************************************************)
ArmClocks == AllClocks \cup {ClockUnset}

ArmInit ==
  \E R \in 1..(MaxInterval - 1), c \in ArmClocks :
     CycleState("begin_sleep", [defaultSettings EXCEPT !.SleepDuration = R], c, 3000, TRUE)

ArmNext == BeginSleep

ArmSpec == ArmInit /\ [][ArmNext]_vars

\* C26: for every refresh interval R in 1..1439 and every clock at BeginSleep, set
\* or never set, the armed duration is positive and 31 <= SleepTimer <= 60 * R + 30.
C26_SleepTimerRange ==
  pc = "sleeping" =>
     /\ SleepTimer > 0
     /\ SleepTimer >= 31
     /\ SleepTimer <= 60 * settings.SleepDuration + 30

\* C26 witness: asleep for 60 * R + 30 seconds with a clock that was never set.
C26_Witness ==
  /\ pc = "sleeping" /\ ~clock.set
  /\ CurrentMin = 0 /\ CurrentSec = 0
  /\ settings.SleepDuration = MaxInterval - 1
  /\ SleepTimer = 60 * (MaxInterval - 1) + 30

\* C27: after every accepted save whose resulting sleep hour is not 24 the stored
\* wake hour is at most the stored sleep hour; when the submitted start hour is
\* not below the submitted stop hour, the start hour is stored as the stop hour.
C27_NoMidnightSpanningWindowStored ==
  /\ StoredConfig.SleepHour /= SleepHourNever =>
        StoredConfig.WakeupHour <= StoredConfig.SleepHour
  /\ (/\ saved.startHour.kind = "num"
      /\ saved.stopHour.kind = "num"
      /\ saved.startHour.val >= saved.stopHour.val) =>
        /\ StoredConfig.WakeupHour = saved.startHour.val
        /\ StoredConfig.SleepHour = saved.startHour.val

\* C27 witness: after a save with the start hour 23, a save without start hour
\* and with the stop hour 6 was accepted and stored with the stop hour 23.
C27_Witness ==
  /\ pc = "boot"
  /\ saved.startHour.kind = "empty"
  /\ saved.stopHour = Param("num", 6)
  /\ StoredConfig.WakeupHour = 23
  /\ StoredConfig.SleepHour = 23

(***************************************************************************)
(* Rejection specification: provisioning mode served requests that pass    *)
(* validation, requests with one field each that fails it, and /reboot.    *)
(***************************************************************************)
ValidRequest == Request(32, 13, "I", Param("num", 30), Param("num", 6), Param("num", 20))

FaultyRequests ==
  {[ValidRequest EXCEPT !.apikey = MaxCredLen + 1],
   [ValidRequest EXCEPT !.ssid = MaxCredLen + 1],
   [ValidRequest EXCEPT !.password = MaxCredLen + 1],
   [ValidRequest EXCEPT !.location = MaxCityLen + 1],
   [ValidRequest EXCEPT !.units = "X"],
   [ValidRequest EXCEPT !.startHour = Param("num", -1)],
   [ValidRequest EXCEPT !.startHour = Param("num", 24)],
   [ValidRequest EXCEPT !.stopHour = Param("num", 0)],
   [ValidRequest EXCEPT !.stopHour = Param("num", 24)]}

AcceptedRequests ==
  {Request(32, 13, "M", fr, st, sp) :
      fr \in {Param("empty", 0), Param("num", 30), Param("num", 90)},
      st \in {Param("empty", 0), Param("none", 0), Param("num", 6), Param("num", 23)},
      sp \in {Param("empty", 0), Param("none", 0), Param("num", 6), Param("num", 23)}}

RejectRequests == AcceptedRequests \cup {ValidRequest} \cup FaultyRequests

RejectNext ==
  \/ Boot(TRUE)
  \/ ServeForm
  \/ RebootRequest
  \/ \E req \in RejectRequests : SaveRequest(req)
  \/ HardwareReset

RejectSpec == Init /\ [][RejectNext]_vars

\* A request that fails validation, in the words of the form's error messages.
FailsValidation(req) ==
  \/ req.apikey > 63
  \/ req.ssid > 63
  \/ req.password > 63
  \/ req.location > 127
  \/ req.units \notin {"", "I", "M"}
  \/ (req.startHour.kind = "num" /\ req.startHour.val \notin 0..23)
  \/ (req.stopHour.kind = "num" /\ req.stopHour.val \notin 1..23)

\* C28: a save request that fails validation leaves the settings in memory and
\* the persisted settings unchanged and does not reboot; the persisted settings
\* change in provisioning mode only by a save request that passes validation, so
\* a /reboot request leaves them unchanged.
C28_RejectedSaveChangesNothing ==
  [][/\ \A req \in RejectRequests :
           (FailsValidation(req) /\ SaveRequest(req)) =>
              /\ settings' = settings
              /\ prefs' = prefs
              /\ pc' /= "boot"
              /\ served' = "error"
     /\ (pc = "setup_mode" /\ served' = "error") =>
           (settings' = settings /\ prefs' = prefs /\ pc' /= "boot")
     /\ (pc = "setup_mode" /\ prefs' /= prefs) =>
           \E req \in RejectRequests :
              /\ ~FailsValidation(req)
              /\ prefs' = saveSettings(SavedSettings(settings, req))]_vars

\* C28 witness: after an accepted save with the start hour 23, a request that
\* fails validation was answered with the error page; the settings in memory and
\* the stored ones are those of the save.
C28_Witness ==
  /\ pc = "loop"
  /\ served = "error"
  /\ saved.startHour = Param("num", 23)
  /\ StoredConfig.WakeupHour = 23
  /\ settings = StoredConfig

(***************************************************************************)
(* Coordinates of the forecast request                                     *)
(***************************************************************************)
\* The coordinates of s are not the marker and are a latitude in -90..90 and a
\* longitude in -180..180.
CoordinatesInRange(s) ==
  /\ s.Latitude /= InvalidCoord /\ s.Longitude /= InvalidCoord
  /\ s.Latitude >= -900000 /\ s.Latitude <= 900000
  /\ s.Longitude >= -1800000 /\ s.Longitude <= 1800000

\* C29: every accepted save stores the marker -181 as latitude and longitude; a
\* location validation that starts with the marker lets the cycle go on only
\* after it geocoded the location and persisted coordinates in range; and every
\* forecast request is made with persisted coordinates in range, never with the
\* marker.
C29_NoFetchWithMarkerCoordinates ==
  [][/\ (pc = "setup_mode" /\ prefs' /= prefs) =>
           /\ initSettings(prefs').Latitude = InvalidCoord
           /\ initSettings(prefs').Longitude = InvalidCoord
     /\ (/\ pc = "validate" /\ pc' = "window"
         /\ (settings.Latitude = InvalidCoord \/ settings.Longitude = InvalidCoord)) =>
           /\ geocode'.kind = "coords"
           /\ settings'.Latitude = geocode'.lat /\ settings'.Longitude = geocode'.lon
           /\ CoordinatesInRange(settings')
           /\ prefs' = saveSettings(settings')
     /\ results' /= results /\ results' /= <<>> =>
           /\ CoordinatesInRange(settings)
           /\ initSettings(prefs) = settings]_vars

\* C29 witness: a save was accepted, and in a later cycle the forecast was fetched
\* with the coordinates the geocoder returned.
C29_Witness ==
  /\ saved /= NoSave
  /\ results = <<0>>
  /\ geocode.kind = "coords"
  /\ settings.Latitude = geocode.lat /\ settings.Longitude = geocode.lon
  /\ initSettings(prefs) = settings

(***************************************************************************)
(* Records the display is built from                                       *)
(***************************************************************************)
\* The indices of the records DecodeWeather() wrote in this cycle.
WrittenDaily == DOMAIN WxDailyForecast

WrittenHourly == DOMAIN WxHourlyForecast

\* The periods drawForecast() put into a bucket: cloudCoverCount successive ones
\* from the first.
PeriodsOf(d) == d.firstPeriodIndex..(d.firstPeriodIndex + d.cloudCoverCount - 1)

\* No bucket of the 5-day strip holds a record that was not written.
StripFromWrittenRecords ==
  \A j \in 1..Len(drawn.days) : PeriodsOf(drawn.days[j].stats) \subseteq WrittenDaily

\* No point of the graph is a record that was not written.
GraphFromWrittenRecords ==
  \A k \in 1..Len(drawn.bars) : drawn.bars[k].index \in WrittenHourly

\* C30: the 5-day strip and the 24-hour graph are built only from records the
\* decode of this cycle wrote: with fewer than 8 daily or 48 hourly entries in the
\* document, no record at an index that was not written makes or joins a bucket
\* and none is a point of the graph.
C30_DrawnFromWrittenRecords ==
  Rendered => (StripFromWrittenRecords /\ GraphFromWrittenRecords)

====
